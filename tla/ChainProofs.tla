---------------------------- MODULE ChainProofs ----------------------------
(***************************************************************************)
(* The path of a room change and of the snapshots it brings back, for any  *)
(* seeds, sockets, players and bounds: TagsIdentifyContext, PregamePrivacy *)
(* and TalkStaysInItsRoom.                                                 *)
(*                                                                         *)
(* A revision is given out once, to one context.  What any party holds of  *)
(* that context (a line, a message, a socket's fields, a frame) is a claim *)
(* that was copied from it, and no step but a new join makes a new claim.  *)
(* For the talk, each queue leads through places (a room, and as whom):    *)
(* from the one its reader is in to the one its writer is in.              *)
(***************************************************************************)
EXTENDS PresenceChain, SequenceTheorems, TLAPS

----------------------------------------------------------------------------
(* Queues, whatever they hold *)

Elements(q) == {q[i] : i \in 1..Len(q)}

IsQueue(q) == q \in Seq(Elements(q))

LEMMA QueueOf ==
  ASSUME NEW T, NEW q \in Seq(T)
  PROVE  IsQueue(q) /\ Elements(q) \subseteq T /\ Len(q) \in Nat
<1>1. Len(q) \in Nat /\ DOMAIN q = 1..Len(q) /\ \A i \in 1..Len(q) : q[i] \in T
  OBVIOUS
<1>2. q = [i \in 1..Len(q) |-> q[i]]
  OBVIOUS
<1>3. \A i \in 1..Len(q) : q[i] \in Elements(q)
  BY DEF Elements
<1>4. [i \in 1..Len(q) |-> q[i]] \in Seq(Elements(q))
  BY <1>1, <1>3, IsASeq
<1>5. q \in Seq(Elements(q))
  BY <1>2, <1>4
<1>6. Elements(q) \subseteq T
  BY <1>1 DEF Elements
<1> QED
  BY <1>1, <1>5, <1>6 DEF IsQueue

LEMMA QueueEmpty == IsQueue(<<>>) /\ Elements(<<>>) = {}
<1>1. Elements(<<>>) = {}
  BY DEF Elements
<1>2. <<>> \in Seq({})
  OBVIOUS
<1> QED
  BY <1>1, <1>2 DEF IsQueue

LEMMA QueueAppend ==
  ASSUME NEW q, IsQueue(q), NEW e
  PROVE  IsQueue(Append(q, e)) /\ Elements(Append(q, e)) = Elements(q) \cup {e}
<1>. DEFINE T == Elements(q) \cup {e}  new == Append(q, e)
<1>1. q \in Seq(T)
  BY DEF IsQueue
<1>2. /\ new \in Seq(T) /\ Len(new) = Len(q) + 1 /\ Len(q) \in Nat
      /\ \A i \in 1..Len(q) : new[i] = q[i]
      /\ new[Len(q) + 1] = e
  BY <1>1
<1>. HIDE DEF new
<1>3. IsQueue(new) /\ Elements(new) \subseteq T
  BY <1>2, QueueOf
<1>4. T \subseteq Elements(new)
  <2>1. \A i \in 1..Len(q) : i \in 1..Len(new)
    BY <1>2
  <2>2. Elements(q) \subseteq Elements(new)
    BY <1>2, <2>1 DEF Elements
  <2>3. Len(q) + 1 \in 1..Len(new)
    BY <1>2
  <2>4. e \in Elements(new)
    BY <1>2, <2>3 DEF Elements
  <2> QED
    BY <2>2, <2>4
<1> QED
  BY <1>3, <1>4 DEF new

LEMMA QueueTail ==
  ASSUME NEW q, IsQueue(q), q # <<>>
  PROVE  /\ IsQueue(Tail(q)) /\ Elements(Tail(q)) \subseteq Elements(q)
         /\ Head(q) \in Elements(q)
<1>1. q \in Seq(Elements(q))
  BY DEF IsQueue
<1>2. Tail(q) \in Seq(Elements(q)) /\ Head(q) \in Elements(q)
  BY <1>1
<1> QED
  BY <1>2, QueueOf

LEMMA QueueConcat ==
  ASSUME NEW q, IsQueue(q), NEW p, IsQueue(p)
  PROVE  IsQueue(q \o p) /\ Elements(q \o p) \subseteq Elements(q) \cup Elements(p)
<1>. DEFINE T == Elements(q) \cup Elements(p)
<1>1. q \in Seq(T) /\ p \in Seq(T)
  BY DEF IsQueue
<1>2. q \o p \in Seq(T)
  BY <1>1
<1>. HIDE DEF T
<1>3. IsQueue(q \o p) /\ Elements(q \o p) \subseteq T
  BY <1>2, QueueOf
<1> QED
  BY <1>3 DEF T

LEMMA QueueOne ==
  ASSUME NEW a
  PROVE  IsQueue(<<a>>) /\ Elements(<<a>>) = {a}
<1>1. <<a>> \in Seq({a}) /\ Len(<<a>>) = 1 /\ <<a>>[1] = a
  OBVIOUS
<1>2. IsQueue(<<a>>)
  BY <1>1, QueueOf
<1>3. Elements(<<a>>) = {a}
  BY <1>1 DEF Elements
<1> QED
  BY <1>2, <1>3

LEMMA QueueTwo ==
  ASSUME NEW a, NEW b
  PROVE  IsQueue(<<a, b>>) /\ Elements(<<a, b>>) = {a, b}
<1>1. <<a, b>> \in Seq({a, b}) /\ Len(<<a, b>>) = 2 /\ <<a, b>>[1] = a /\ <<a, b>>[2] = b
  OBVIOUS
<1>2. IsQueue(<<a, b>>)
  BY <1>1, QueueOf
<1>3. Elements(<<a, b>>) = {a, b}
  BY <1>1 DEF Elements
<1> QED
  BY <1>2, <1>3
----------------------------------------------------------------------------
(* Types: as much as the steps below need of the records that are updated *)

Asker == {Friendly, Fallback}
Team == {0, 1}

\* What the sidecar and the relay remember of a join.
Remembered ==
  [room : Room \cup {NoRoom}, user : Asker \cup {NoUser}, team : Team \cup {NoTeam},
   spectator : BOOLEAN, reveal : BOOLEAN, rev : Nat]

\* What Lua asks for.
Asked ==
  [room : Room, user : Asker, team : Team \cup {NoTeam},
   spectator : BOOLEAN, reveal : BOOLEAN, rev : Nat \ {0}]

Shown ==
  [seed : Seed \cup {NoSeed}, playing : BOOLEAN, team : Team \cup {NoTeam},
   spectator : BOOLEAN, named : BOOLEAN, changes : Nat]

Present ==
  [room : Room \cup {NoRoom}, seed : Seed \cup {NoSeed}, team : Team \cup {NoTeam},
   spectator : BOOLEAN, user : Asker \cup {NoUser}, reveal : BOOLEAN]

Permission == [seed : Seed \cup {NoSeed}, revealed : BOOLEAN]

\* A chat line as Lua writes it and the sidecar forwards it.
Talk(l) == l.type = "chat" => l.target \in Team \cup {NoTeam}

LuaTyped ==
  /\ game \in Shown /\ cur \in Present /\ gate \in Permission
  /\ rev \in Nat
  /\ cur.room # NoRoom => rev # 0 /\ cur.user \in Asker
  /\ cur.seed # NoSeed => cur.room # NoRoom /\ gate.seed = cur.seed
  /\ IsQueue(outbox) /\ IsQueue(inbox)
  /\ \A l \in Elements(outbox) : (l.type = "room_change" => S!ContextOf(l) \in Asked) /\ Talk(l)

\* What the sidecar sends.
Message(m) ==
  m.type \in {"join", "leave", "chat"} /\ (m.type = "join" => m.context \in Asked) /\ Talk(m)

LinkTyped ==
  /\ link.state \in {"waiting", "connecting", "open", "closing"}
  /\ link = [sock |-> link.sock, state |-> link.state]
  /\ link.state # "waiting" => link.sock \in MySocket
  /\ cache \in Remembered /\ (cache.room # NoRoom => cache \in Asked)
  /\ DOMAIN up = MySocket
  /\ \A s \in MySocket : /\ IsQueue(up[s])
                          /\ \A m \in Elements(up[s]) : Message(m)

RelayTyped ==
  /\ DOMAIN ctx = Socket /\ DOMAIN down = Socket
  /\ \A s \in MySocket : ctx[s] \in Remembered
  /\ \A s \in Socket : IsQueue(down[s])

Typed == LuaTyped /\ LinkTyped /\ RelayTyped

----------------------------------------------------------------------------
(* Claims *)

Claim(c) == [to |-> R!MemberOf(c), reveal |-> c.reveal, rev |-> c.rev]
ClaimOf(f) == [to |-> f.to, reveal |-> f.reveal, rev |-> f.rev]

LineClaims(q) == {Claim(l) : l \in {x \in Elements(q) : x.type = "room_change"}}
JoinClaims(q) == {Claim(m.context) : m \in {x \in Elements(q) : x.type = "join"}}
FrameClaims(q) == {ClaimOf(f) : f \in {x \in Elements(q) : x.kind = "presence"}}

Claims ==
  LineClaims(outbox) \cup {Claim(cache)} \cup FrameClaims(inbox)
    \cup UNION {JoinClaims(up[s]) \cup {Claim(ctx[s])} \cup FrameClaims(down[s]) : s \in MySocket}

\* Revision 0 is what leaving a room puts in place of a claim.
Live == {c \in Claims : c.rev # 0}
Known(c) == c \in Claims \/ c.rev = 0

\* A revision stands for one context, and the last one for the present.
OneClaimEach ==
  /\ \A c \in Live : c.rev \in Nat /\ c.rev <= rev
  /\ \A c, d \in Live : c.rev = d.rev => c = d
  /\ \A c \in Live : cur.room # NoRoom /\ c.rev = rev =>
       c.to = R!MemberOf(cur) /\ (c.reveal => cur.seed \in played)

\* Permission is only ever given for a match whose gameplay has been seen.
GateHonest ==
  /\ gate.revealed => gate.seed \in played
  /\ game.playing => game.seed \in played

\* What a snapshot without the permission lists.
Discreet(f) ==
  f.reveal \/ \A m \in f.members :
    m = f.to \/ (~f.to.spectator /\ f.to.team \in Team /\ ~m.spectator /\ m.team = f.to.team)

AllDiscreet(q) == \A f \in Elements(q) : f.kind = "presence" => Discreet(f)

FramesDiscreet == AllDiscreet(inbox) /\ \A s \in MySocket : AllDiscreet(down[s])

ChainInv == Typed /\ OneClaimEach /\ GateHonest /\ FramesDiscreet /\ PregamePrivacy

LEMMA Wider ==
  ASSUME NEW q, NEW p, Elements(q) \subseteq Elements(p)
  PROVE  /\ LineClaims(q) \subseteq LineClaims(p)
         /\ JoinClaims(q) \subseteq JoinClaims(p)
         /\ FrameClaims(q) \subseteq FrameClaims(p)
         /\ AllDiscreet(p) => AllDiscreet(q)
<1>1. LineClaims(q) \subseteq LineClaims(p)
  BY DEF LineClaims
<1>2. JoinClaims(q) \subseteq JoinClaims(p)
  BY DEF JoinClaims
<1>3. FrameClaims(q) \subseteq FrameClaims(p)
  BY DEF FrameClaims
<1>4. AllDiscreet(p) => AllDiscreet(q)
  BY DEF AllDiscreet
<1> QED
  BY <1>1, <1>2, <1>3, <1>4

\* No new claim: what was told stays right as long as the present context
\* stays, or is gone, or has a revision of its own.
LEMMA NothingClaimed ==
  ASSUME OneClaimEach, rev \in Nat, \A c \in Claims' : Known(c), played \subseteq played',
         \/ /\ rev' = rev /\ cur'.room = cur.room /\ cur'.seed = cur.seed
            /\ R!MemberOf(cur') = R!MemberOf(cur)
         \/ rev' = rev /\ cur'.room = NoRoom
         \/ rev' = rev + 1
  PROVE  OneClaimEach'
<1>. DEFINE Old == Live  New == Live'
<1>1. New \subseteq Old
  BY DEF Live, Known
<1>2. /\ \A c \in Old : c.rev \in Nat /\ c.rev <= rev
      /\ \A c, d \in Old : c.rev = d.rev => c = d
      /\ \A c \in Old : cur.room # NoRoom /\ c.rev = rev =>
           c.to = R!MemberOf(cur) /\ (c.reveal => cur.seed \in played)
  BY DEF OneClaimEach
<1>. SUFFICES /\ \A c \in New : c.rev \in Nat /\ c.rev <= rev'
              /\ \A c, d \in New : c.rev = d.rev => c = d
              /\ \A c \in New : cur'.room # NoRoom /\ c.rev = rev' =>
                   c.to = R!MemberOf(cur') /\ (c.reveal => cur'.seed \in played')
  BY DEF OneClaimEach, R!MemberOf
<1>. HIDE DEF Old, New
<1> QED
  BY <1>1, <1>2

\* A new claim comes with a new revision.
LEMMA Claimed ==
  ASSUME OneClaimEach, rev \in Nat, rev' = rev + 1,
         NEW new, Claims' \subseteq Claims \cup {new},
         new.rev = rev', new.to = R!MemberOf(cur'), new.reveal => cur'.seed \in played'
  PROVE  OneClaimEach'
<1>. DEFINE Old == Live  New == Live'
<1>1. New \subseteq Old \cup {new}
  BY DEF Live
<1>2. /\ \A c \in Old : c.rev \in Nat /\ c.rev <= rev
      /\ \A c, d \in Old : c.rev = d.rev => c = d
  BY DEF OneClaimEach
<1>. SUFFICES /\ \A c \in New : c.rev \in Nat /\ c.rev <= rev'
              /\ \A c, d \in New : c.rev = d.rev => c = d
              /\ \A c \in New : cur'.room # NoRoom /\ c.rev = rev' =>
                   c.to = R!MemberOf(cur') /\ (c.reveal => cur'.seed \in played')
  BY DEF OneClaimEach, R!MemberOf
<1>. HIDE DEF Old, New
<1>3. \A c \in Old : c.rev # rev'
  BY <1>2
<1> QED
  BY <1>1, <1>2, <1>3

\* What the game side can do to the claims: write a line, empty the inbox.
LEMMA LuaClaims ==
  ASSUME NEW X, UNCHANGED <<cache, up, ctx, down>>,
         LineClaims(outbox') \subseteq LineClaims(outbox) \cup X,
         FrameClaims(inbox') \subseteq FrameClaims(inbox)
  PROVE  Claims' \subseteq Claims \cup X
BY DEF Claims, LineClaims, FrameClaims, JoinClaims, Claim, ClaimOf, R!MemberOf

----------------------------------------------------------------------------
(* The game and the chat module *)

LuaInv == LuaTyped /\ GateHonest /\ PregamePrivacy

Elsewhere == <<cache, link, up, ctx, down>>

LEMMA EngineKeeps ==
  ASSUME LuaInv, OneClaimEach, C!Engine, UNCHANGED Elsewhere
  PROVE  LuaInv' /\ OneClaimEach' /\ UNCHANGED <<inbox, outbox>>
<1>1. UNCHANGED <<cur, rev, gate, presence, outbox, inbox>>
  BY DEF C!Engine, C!NewMatch, C!GameplayBegins, C!GameplayPauses, C!MatchGone, C!NameResolved,
         C!Reassigned, C!Changed
<1>2. C!ChatRoomConstants
  BY ChainConstants DEF ChainConstants
<1>3. played \subseteq played' /\ (game'.playing => game'.seed \in played')
  BY DEF LuaInv, LuaTyped, Shown, GateHonest, C!Engine, C!NewMatch, C!GameplayBegins,
         C!GameplayPauses, C!MatchGone, C!NameResolved, C!Reassigned, C!Changed, C!Happens
<1>4. game' \in Shown
  <2>1. game \in Shown
    BY DEF LuaInv, LuaTyped
  <2>2. ASSUME NEW g \in Shown, C!Happens(g) PROVE game' \in Shown
    BY <2>2 DEF C!Happens, Shown
  <2>3. CASE \E seed \in Seed : C!NewMatch(seed)
    <3>1. PICK seed \in Seed : C!NewMatch(seed)
      BY <2>3
    <3>2. [game EXCEPT !.seed = seed, !.playing = FALSE] \in Shown
      BY <2>1 DEF Shown
    <3> QED
      BY <2>2, <3>1, <3>2 DEF C!NewMatch, C!Changed
  <2>4. CASE C!GameplayBegins \/ C!GameplayPauses \/ C!MatchGone \/ C!NameResolved
    <3>1. /\ [game EXCEPT !.playing = TRUE] \in Shown /\ [game EXCEPT !.playing = FALSE] \in Shown
          /\ [game EXCEPT !.seed = NoSeed, !.playing = FALSE] \in Shown
          /\ [game EXCEPT !.named = TRUE] \in Shown
      BY <2>1 DEF Shown
    <3> QED
      BY <2>2, <2>4, <3>1 DEF C!GameplayBegins, C!GameplayPauses, C!MatchGone, C!NameResolved,
                              C!Changed
  <2>5. CASE \E r \in Role : C!Reassigned(r)
    <3>1. PICK r \in Role : C!Reassigned(r)
      BY <2>5
    <3>2. r \in [team : Team \cup {NoTeam}, spectator : BOOLEAN]
      BY <1>2 DEF C!ChatRoomConstants, C!Team, Team
    <3>3. [game EXCEPT !.team = r.team, !.spectator = r.spectator] \in Shown
      BY <2>1, <3>2 DEF Shown
    <3> QED
      BY <2>2, <3>1, <3>3 DEF C!Reassigned, C!Changed
  <2> QED
    BY <2>3, <2>4, <2>5 DEF C!Engine
<1>5. LuaTyped'
  BY <1>1, <1>4 DEF LuaInv, LuaTyped
<1>6. GateHonest'
  BY <1>1, <1>3 DEF LuaInv, GateHonest
<1>7. PregamePrivacy'
  BY <1>1, <1>3 DEF LuaInv, PregamePrivacy, IsMe, SameSide
<1>8. \A c \in Claims' : Known(c)
  BY <1>1 DEF Elsewhere, Claims, Known
<1>9. OneClaimEach'
  BY <1>1, <1>3, <1>8, NothingClaimed DEF LuaInv, LuaTyped
<1> QED
  BY <1>1, <1>5, <1>6, <1>7, <1>9 DEF LuaInv

\* What tryJoinRoom computes before it decides.
LEMMA WantedTypes ==
  ASSUME LuaInv
  PROVE  /\ C!InMatch => C!Wanted.room \in Room
         /\ C!Wanted.user \in Asker /\ C!Wanted.seed = game.seed
         /\ C!Wanted \in Present
         /\ C!GateNow \in Permission
         /\ C!GateNow.revealed => game.seed \in played
         /\ C!GateNow.seed = game.seed /\ C!Wanted.reveal = C!GateNow.revealed
         /\ C!CurNow \in Present
         /\ C!CurNow = [cur EXCEPT !.reveal = C!CurNow.reveal]
<1>1. game \in Shown /\ cur \in Present /\ gate \in Permission
  BY DEF LuaInv, LuaTyped
<1>2. C!GateNow \in Permission /\ C!GateNow.seed = game.seed
  BY <1>1 DEF C!GateNow, Permission, Shown
<1>3. C!GateNow.revealed => game.seed \in played
  BY <1>1 DEF LuaInv, GateHonest, C!GateNow, Permission, Shown
<1>4. C!Username \in Asker
  BY <1>1 DEF C!Username, Asker, Present
<1>5. C!InMatch => C!SeedToCode(game.seed) \in Room
  BY <1>1 DEF C!InMatch, C!SeedToCode, Room, Shown
<1>6. C!LocalTeam \in Team \cup {NoTeam}
  BY <1>1 DEF C!LocalTeam, Shown
<1>7. C!CurNow \in Present /\ C!CurNow = [cur EXCEPT !.reveal = C!CurNow.reveal]
  BY <1>1 DEF C!CurNow, Present
<1>8. /\ C!InMatch => C!Wanted.room \in Room
      /\ C!Wanted.user \in Asker /\ C!Wanted.seed = game.seed
      /\ C!Wanted.reveal = C!GateNow.revealed
  BY <1>4, <1>5 DEF C!Wanted
<1>9. C!Wanted \in Present
  <2>1. C!GateNow.revealed \in BOOLEAN /\ game.seed \in Seed \cup {NoSeed}
        /\ game.spectator \in BOOLEAN
    BY <1>1, <1>2 DEF Permission, Shown
  <2>2. (IF C!InMatch THEN C!SeedToCode(game.seed) ELSE NoRoom) \in Room \cup {NoRoom}
    BY <1>5
  <2> QED
    BY <1>4, <1>6, <2>1, <2>2 DEF C!Wanted, Present
<1> QED
  BY <1>2, <1>3, <1>7, <1>8, <1>9

LEMMA TryJoinKeeps ==
  ASSUME LuaInv, OneClaimEach, NEW t, C!TryJoinRoom(t),
         UNCHANGED <<game, played, inbox, Elsewhere>>
  PROVE  LuaInv' /\ OneClaimEach'
<1>1. game \in Shown /\ cur \in Present /\ gate \in Permission /\ rev \in Nat
      /\ IsQueue(outbox)
  BY DEF LuaInv, LuaTyped
<1>2. CASE C!JoinUnchanged(t)
  <2>1. UNCHANGED <<rev, presence, outbox>> /\ gate' = C!GateNow /\ cur' = C!CurNow
    BY <1>2 DEF C!JoinUnchanged
  <2>2. /\ cur' \in Present /\ cur'.room = cur.room /\ cur'.seed = cur.seed
        /\ cur'.user = cur.user /\ cur'.team = cur.team /\ cur'.spectator = cur.spectator
    BY <1>1, <2>1, WantedTypes DEF Present
  <2>3. LuaTyped'
    <3>1. cur'.seed = game.seed /\ gate'.seed = game.seed
      BY <1>2, <2>1, WantedTypes DEF C!JoinUnchanged
    <3> QED
      BY <2>1, <2>2, <3>1, WantedTypes DEF LuaInv, LuaTyped, Talk, S!ContextOf
  <2>4. GateHonest'
    BY <2>1, WantedTypes DEF LuaInv, GateHonest
  <2>5. PregamePrivacy'
    BY <2>1, <2>2 DEF LuaInv, PregamePrivacy, IsMe, SameSide
  <2>6. \A c \in Claims' : Known(c)
    BY <2>1 DEF Elsewhere, Claims, Known
  <2>7. R!MemberOf(cur') = R!MemberOf(cur)
    BY <2>2 DEF R!MemberOf
  <2>8. OneClaimEach'
    BY <1>1, <2>1, <2>2, <2>6, <2>7, NothingClaimed
  <2> QED
    BY <2>3, <2>4, <2>5, <2>8 DEF LuaInv
<1>3. CASE C!JoinRetry(t) \/ C!JoinGiveUp(t)
  <2>1. C!Invalidate(C!Kept(C!CurNow)) /\ outbox' = outbox
    BY <1>3 DEF C!JoinRetry, C!JoinGiveUp
  <2>2. gate' = C!GateNow /\ rev' = rev + 1 /\ presence' = {} /\ cur' = C!Kept(C!CurNow)
    BY <2>1 DEF C!Invalidate, C!NextRev
  <2>3. cur' \in Present /\ cur'.room = cur.room /\ cur'.user = cur.user /\ cur'.seed = NoSeed
    BY <1>1, <2>2, WantedTypes DEF Present, C!Kept
  <2>4. LuaTyped'
    BY <1>1, <2>1, <2>2, <2>3, WantedTypes DEF LuaInv, LuaTyped, Talk, S!ContextOf
  <2>5. GateHonest'
    BY <2>2, WantedTypes DEF LuaInv, GateHonest
  <2>6. PregamePrivacy'
    BY <2>2 DEF PregamePrivacy
  <2>7. \A c \in Claims' : Known(c)
    BY <2>1 DEF Elsewhere, Claims, Known
  <2>8. OneClaimEach'
    BY <1>1, <2>2, <2>7, NothingClaimed
  <2> QED
    BY <2>4, <2>5, <2>6, <2>8 DEF LuaInv
<1>4. CASE C!JoinRoom(t)
  <2>. DEFINE line == [type |-> "room_change", room |-> C!Wanted.room, user |-> C!Wanted.user,
                       team |-> C!Wanted.team, spectator |-> C!Wanted.spectator,
                       reveal |-> C!Wanted.reveal, rev |-> rev + 1]
  <2>1. /\ gate' = C!GateNow /\ rev' = rev + 1 /\ presence' = {} /\ cur' = C!Wanted
        /\ outbox' = Append(outbox, line)
        /\ C!InMatch
    BY <1>4 DEF C!JoinRoom, C!Invalidate, C!NextRev, C!Write
  <2>2. IsQueue(outbox') /\ Elements(outbox') = Elements(outbox) \cup {line}
    BY <1>1, <2>1, QueueAppend
  <2>3. S!ContextOf(line) \in Asked
    <3>1. /\ C!Wanted.room \in Room /\ C!Wanted.user \in Asker
          /\ C!Wanted.team \in Team \cup {NoTeam} /\ C!Wanted.spectator \in BOOLEAN
          /\ C!Wanted.reveal \in BOOLEAN /\ rev + 1 \in Nat \ {0}
      BY <1>1, <2>1, WantedTypes DEF Present
    <3> QED
      BY <3>1 DEF S!ContextOf, Asked
  <2>4. LuaTyped'
    <3>1. Talk(line) /\ cur'.room # NoRoom /\ gate'.seed = cur'.seed
      BY <2>1, WantedTypes, ChainConstants DEF Talk, ChainConstants
    <3>. HIDE DEF line
    <3> QED
      BY <1>1, <2>1, <2>2, <2>3, <3>1, WantedTypes DEF LuaInv, LuaTyped, Talk, S!ContextOf
  <2>5. GateHonest'
    BY <2>1, WantedTypes DEF LuaInv, GateHonest
  <2>6. PregamePrivacy'
    BY <2>1 DEF PregamePrivacy
  <2>7. Claims' \subseteq Claims \cup {Claim(line)}
    <3>1. LineClaims(outbox') \subseteq LineClaims(outbox) \cup {Claim(line)}
      BY <2>2 DEF LineClaims
    <3> QED
      BY <3>1, LuaClaims DEF Elsewhere
  <2>8. /\ Claim(line).rev = rev' /\ Claim(line).to = R!MemberOf(cur')
        /\ Claim(line).reveal => cur'.seed \in played'
    BY <2>1, WantedTypes DEF Claim, R!MemberOf
  <2>9. OneClaimEach'
    BY <1>1, <2>1, <2>7, <2>8, Claimed
  <2> QED
    BY <2>4, <2>5, <2>6, <2>9 DEF LuaInv
<1> QED
  BY <1>2, <1>3, <1>4 DEF C!TryJoinRoom

\* Leaving gives the permission up and claims nothing.
LEMMA LeaveKeeps ==
  ASSUME LuaInv, OneClaimEach, C!LeaveRoom, presence' \in {C!NamesLeft, {}},
         game' = game \/ C!Happens(game),
         UNCHANGED <<played, rev, Elsewhere>>, inbox' \in {inbox, <<>>}
  PROVE  LuaInv' /\ OneClaimEach'
<1>1. game \in Shown /\ cur \in Present /\ gate \in Permission /\ rev \in Nat
      /\ IsQueue(outbox) /\ IsQueue(inbox)
  BY DEF LuaInv, LuaTyped
<1>2. /\ cur' \in Present /\ cur'.room = NoRoom
      /\ cur.room = NoRoom => cur'.seed = cur.seed /\ R!MemberOf(cur') = R!MemberOf(cur)
      /\ cur'.seed = NoSeed
  <2>1. CASE cur.room = NoRoom
    <3>1. cur' = [cur EXCEPT !.reveal = FALSE]
      BY <2>1 DEF C!LeaveRoom
    <3> QED
      BY <1>1, <2>1, <3>1 DEF LuaInv, LuaTyped, Present, R!MemberOf
  <2>2. CASE cur.room # NoRoom
    <3>1. cur' = C!Nowhere
      BY <2>2 DEF C!LeaveRoom
    <3> QED
      BY <2>2, <3>1 DEF C!Nowhere, Present
  <2> QED
    BY <2>1, <2>2
<1>3. gate' \in Permission /\ ~gate'.revealed
  BY DEF C!LeaveRoom, C!Sealed, Permission
<1>4. game' \in Shown /\ game'.seed = game.seed /\ game'.playing = game.playing
  BY <1>1 DEF C!Happens, Shown
<1>5. IsQueue(outbox') /\ \A l \in Elements(outbox') : l \in Elements(outbox) \/ l.type = "room_leave"
  <2>1. CASE outbox' = outbox
    BY <1>1, <2>1
  <2>2. CASE outbox' = Append(outbox, [type |-> "room_leave"])
    BY <1>1, <2>2, QueueAppend
  <2> QED
    BY <2>1, <2>2 DEF C!LeaveRoom, C!Write
<1>6. IsQueue(inbox') /\ Elements(inbox') \subseteq Elements(inbox)
  BY <1>1, QueueEmpty
<1>7. LuaTyped'
  <2>1. \A l \in Elements(outbox') : (l.type = "room_change" => S!ContextOf(l) \in Asked) /\ Talk(l)
    BY <1>5 DEF LuaInv, LuaTyped, Talk
  <2> QED
    BY <1>1, <1>2, <1>3, <1>4, <1>5, <1>6, <2>1 DEF LuaTyped, S!ContextOf, Talk
<1>8. GateHonest'
  BY <1>3, <1>4 DEF LuaInv, GateHonest
<1>9. PregamePrivacy'
  <2>1. CASE presence' = {}
    BY <2>1 DEF PregamePrivacy
  <2>2. CASE cur.room = NoRoom /\ presence' = presence
    <3>1. cur' = [cur EXCEPT !.reveal = FALSE]
      BY <2>2 DEF C!LeaveRoom
    <3>2. cur'.seed = cur.seed /\ cur'.team = cur.team /\ cur'.spectator = cur.spectator
      BY <1>1, <3>1 DEF Present
    <3> QED
      BY <2>2, <3>2 DEF LuaInv, PregamePrivacy, IsMe, SameSide
  <2> QED
    BY <2>1, <2>2 DEF C!NamesLeft
<1>10. \A c \in Claims' : Known(c)
  <2>1. LineClaims(outbox') \subseteq LineClaims(outbox) \cup {}
    BY <1>5 DEF LineClaims
  <2>2. FrameClaims(inbox') \subseteq FrameClaims(inbox)
    BY <1>6, Wider
  <2>3. Claims' \subseteq Claims \cup {}
    BY <2>1, <2>2, LuaClaims, Zenon DEF Elsewhere
  <2> QED
    BY <2>3 DEF Known
<1>11. OneClaimEach'
  BY <1>1, <1>2, <1>10, NothingClaimed
<1> QED
  BY <1>7, <1>8, <1>9, <1>11 DEF LuaInv

\* An accepted snapshot was built for the present context: what it lists is
\* what that context may see.
LEMMA ReadKeeps ==
  ASSUME LuaInv, OneClaimEach, AllDiscreet(inbox), C!ReadInbox, UNCHANGED Elsewhere
  PROVE  LuaInv' /\ OneClaimEach'
<1>1. UNCHANGED <<game, played, cur, rev, gate, outbox>> /\ inbox' = <<>>
  BY DEF C!ReadInbox
<1>2. IsQueue(inbox') /\ Elements(inbox') = {} /\ rev \in Nat /\ IsQueue(inbox)
  BY <1>1, QueueEmpty DEF LuaInv, LuaTyped
<1>3. LuaTyped'
  BY <1>1, <1>2 DEF LuaInv, LuaTyped, S!ContextOf, Talk
<1>4. GateHonest'
  BY <1>1 DEF LuaInv, GateHonest
<1>5. \A c \in Claims' : Known(c)
  BY <1>1, <1>2 DEF Elsewhere, Claims, FrameClaims, Known
<1>6. OneClaimEach'
  BY <1>1, <1>2, <1>5, NothingClaimed
<1>7. PregamePrivacy'
  <2>1. CASE presence' = presence
    BY <1>1, <2>1 DEF LuaInv, PregamePrivacy, IsMe, SameSide
  <2>2. ASSUME NEW i \in 1..Len(inbox), C!Accepts(inbox[i]), presence' = inbox[i].members
        PROVE  PregamePrivacy'
    <3>. DEFINE f == inbox[i]
    <3>1. f \in Elements(inbox) /\ f.kind = "presence"
      BY <2>2 DEF Elements, C!Accepts
    <3>2. cur.room # NoRoom /\ f.rev = rev /\ f.reveal = cur.reveal /\ rev # 0 /\ cur.user \in Asker
      BY <2>2 DEF C!Accepts, LuaInv, LuaTyped
    <3>3. ClaimOf(f) \in Claims
      BY <3>1 DEF Claims, FrameClaims
    <3>4. ClaimOf(f) \in Live /\ ClaimOf(f).rev = rev /\ ClaimOf(f).to = f.to
          /\ ClaimOf(f).reveal = f.reveal
      BY <3>2, <3>3 DEF Live, ClaimOf
    <3>5. f.to = R!MemberOf(cur) /\ (f.reveal => cur.seed \in played)
      BY <3>2, <3>4 DEF OneClaimEach
    <3>6. /\ f.to.user = cur.user /\ f.to.team = cur.team /\ f.to.spectator = cur.spectator
      BY <3>5 DEF R!MemberOf
    <3>7. Discreet(f)
      BY <3>1 DEF AllDiscreet
    <3>8. ASSUME NEW m \in f.members
          PROVE  IsMe(m) \/ SameSide(m) \/ cur.seed \in played
      BY <3>2, <3>5, <3>6, <3>7 DEF Discreet, IsMe, SameSide, Asker, C!Team, Team
    <3> QED
      BY <1>1, <2>2, <3>8 DEF PregamePrivacy, IsMe, SameSide
  <2> QED
    BY <2>1, <2>2 DEF C!ReadInbox
<1> QED
  BY <1>3, <1>4, <1>6, <1>7 DEF LuaInv

LEMMA TalkKeeps ==
  ASSUME LuaInv, OneClaimEach, C!TypeLine \/ \E a \in Audience : C!PollPending(a),
         UNCHANGED Elsewhere
  PROVE  LuaInv' /\ OneClaimEach' /\ inbox' = inbox
<1>1. game \in Shown /\ rev \in Nat /\ IsQueue(outbox)
  BY DEF LuaInv, LuaTyped
<1>2. UNCHANGED <<played, cur, rev, gate, presence, inbox>>
  BY DEF C!TypeLine, C!PollPending
<1>3. game' \in Shown /\ game'.seed = game.seed /\ game'.playing = game.playing
  <2>1. game' = game \/ C!Happens(game)
    BY DEF C!TypeLine, C!PollPending
  <2> QED
    BY <1>1, <2>1 DEF C!Happens, Shown
<1>4. IsQueue(outbox') /\ \A l \in Elements(outbox') :
                            l \in Elements(outbox) \/ (l.type = "chat" /\ Talk(l))
  <2>1. CASE C!TypeLine
    BY <1>1, <2>1 DEF C!TypeLine
  <2>2. CASE \E a \in Audience : C!PollPending(a)
    <3>1. PICK a \in Audience : C!PollPending(a)
      BY <2>2
    <3>. DEFINE line == [type |-> "chat", audience |-> a.audience, target |-> a.target,
                         tag |-> cur.room]
    <3>2. outbox' = Append(outbox, line)
      BY <3>1 DEF C!PollPending, C!Write
    <3>3. line.type = "chat" /\ Talk(line)
      BY ChainConstants DEF ChainConstants, C!ChatRoomConstants, C!Team, Team, Talk
    <3>. HIDE DEF line
    <3> QED
      BY <1>1, <3>2, <3>3, QueueAppend
  <2> QED
    BY <2>1, <2>2
<1>5. LuaTyped'
  <2>1. \A l \in Elements(outbox') : (l.type = "room_change" => S!ContextOf(l) \in Asked) /\ Talk(l)
    BY <1>4 DEF LuaInv, LuaTyped
  <2> QED
    BY <1>2, <1>3, <1>4, <2>1 DEF LuaInv, LuaTyped, S!ContextOf, Talk
<1>6. GateHonest'
  BY <1>2, <1>3 DEF LuaInv, GateHonest
<1>7. PregamePrivacy'
  BY <1>2 DEF LuaInv, PregamePrivacy, IsMe, SameSide
<1>8. \A c \in Claims' : Known(c)
  BY <1>2, <1>4 DEF Elsewhere, Claims, LineClaims, Known
<1>9. OneClaimEach'
  BY <1>1, <1>2, <1>8, NothingClaimed
<1> QED
  BY <1>2, <1>5, <1>6, <1>7, <1>9 DEF LuaInv

LEMMA LuaKeeps ==
  ASSUME LuaInv, OneClaimEach, AllDiscreet(inbox), C!Lua, UNCHANGED Elsewhere
  PROVE  LuaInv' /\ OneClaimEach' /\ AllDiscreet(inbox')
<1>1. CASE C!EndMatch
  <2>1. /\ C!LeaveRoom /\ presence' = C!NamesLeft /\ inbox' = inbox
        /\ UNCHANGED <<game, played, rev>>
    BY <1>1 DEF C!EndMatch
  <2> QED
    BY <2>1, LeaveKeeps
<1>2. CASE C!MapLoaded
  <2>1. /\ C!LeaveRoom /\ presence' = {} /\ inbox' = <<>> /\ C!Happens(game)
        /\ UNCHANGED <<played, rev>>
    BY <1>2 DEF C!MapLoaded
  <2>2. AllDiscreet(inbox')
    BY <2>1, QueueEmpty DEF AllDiscreet
  <2> QED
    BY <2>1, <2>2, LeaveKeeps
<1>3. CASE C!ProbeFires
  <2>1. UNCHANGED <<game, played, cur, rev, gate, presence, outbox, inbox>>
    BY <1>3 DEF C!ProbeFires
  <2>2. LuaInv'
    BY <2>1 DEF LuaInv, LuaTyped, GateHonest, PregamePrivacy, IsMe, SameSide, S!ContextOf, Talk
  <2>3. \A c \in Claims' : Known(c)
    BY <2>1 DEF Elsewhere, Claims, Known
  <2> QED
    BY <2>1, <2>2, <2>3, NothingClaimed DEF LuaInv, LuaTyped
<1>4. CASE \E t : C!TryJoinRoom(t) /\ UNCHANGED <<game, played, inbox>>
  <2>1. PICK t : C!TryJoinRoom(t) /\ UNCHANGED <<game, played, inbox>>
    BY <1>4
  <2> QED
    BY <2>1, TryJoinKeeps
<1>5. CASE C!ReadInbox
  <2>1. AllDiscreet(inbox')
    BY <1>5, QueueEmpty DEF C!ReadInbox, AllDiscreet
  <2> QED
    BY <1>5, <2>1, ReadKeeps
<1>6. CASE C!TypeLine \/ \E a \in Audience : C!PollPending(a)
  BY <1>6, TalkKeeps
<1> QED
  BY <1>1, <1>2, <1>3, <1>4, <1>5, <1>6
     DEF C!Lua, C!TickMatchProbe, C!DelayFires, C!RoomCheckFires, C!OnMatchStateChanged

----------------------------------------------------------------------------
(* The sidecar and the relay *)

LinkShape ==
  /\ link.state \in {"waiting", "connecting", "open", "closing"}
  /\ link = [sock |-> link.sock, state |-> link.state]
  /\ link.state # "waiting" => link.sock \in MySocket

\* The messages on their way up repeat what was known.
Repeats(m) == Message(m) /\ (m.type = "join" => Known(Claim(m.context)))

UpMoved ==
  /\ DOMAIN up' = MySocket
  /\ \A s \in MySocket :
       /\ IsQueue(up'[s])
       /\ \A m \in Elements(up'[s]) : Repeats(m)

CacheMoved ==
  cache' \in Remembered /\ (cache'.room # NoRoom => cache' \in Asked) /\ Known(Claim(cache'))

\* So do the relay's fields and the frames on their way down.
RelayMoved ==
  /\ DOMAIN ctx' = Socket /\ DOMAIN down' = Socket
  /\ \A s \in MySocket : ctx'[s] \in Remembered /\ Known(Claim(ctx'[s]))
  /\ \A s \in Socket : IsQueue(down'[s])
  /\ \A s \in MySocket : \A f \in Elements(down'[s]) :
       f.kind = "presence" => Discreet(f) /\ Known(ClaimOf(f))

\* And the lines of the two files.
FilesMoved ==
  /\ IsQueue(outbox') /\ Elements(outbox') \subseteq Elements(outbox)
  /\ IsQueue(inbox')
  /\ \A f \in Elements(inbox') : f.kind = "presence" => Discreet(f) /\ Known(ClaimOf(f))

LEMMA AsideKeeps ==
  ASSUME ChainInv, UNCHANGED chatSide, LinkShape', UpMoved, CacheMoved, RelayMoved, FilesMoved
  PROVE  ChainInv'
<1>1. UNCHANGED <<game, played, cur, rev, gate, presence>>
  BY DEF chatSide
<1>2. Typed /\ OneClaimEach /\ GateHonest /\ PregamePrivacy
  BY DEF ChainInv
<1>3. LuaTyped'
  BY <1>1, <1>2 DEF Typed, LuaTyped, FilesMoved, S!ContextOf, Talk
<1>4. LinkTyped'
  BY <1>2 DEF Typed, LinkTyped, LinkShape, UpMoved, CacheMoved, Repeats, Message, Talk
<1>5. RelayTyped'
  BY DEF RelayTyped, RelayMoved
<1>6. GateHonest' /\ PregamePrivacy'
  BY <1>1, <1>2 DEF GateHonest, PregamePrivacy, IsMe, SameSide
<1>7. FramesDiscreet'
  BY DEF FramesDiscreet, AllDiscreet, FilesMoved, RelayMoved
<1>8. \A c \in Claims' : Known(c)
  <2>1. \A c \in LineClaims(outbox') : Known(c)
    BY DEF FilesMoved, LineClaims, Known, Claims
  <2>2. \A c \in FrameClaims(inbox') : Known(c)
    BY DEF FilesMoved, FrameClaims
  <2>3. ASSUME NEW s \in MySocket
        PROVE  \A c \in JoinClaims(up'[s]) \cup {Claim(ctx'[s])} \cup FrameClaims(down'[s]) : Known(c)
    BY DEF UpMoved, Repeats, RelayMoved, JoinClaims, FrameClaims
  <2>4. Known(Claim(cache'))
    BY DEF CacheMoved
  <2> QED
    BY <2>1, <2>2, <2>3, <2>4 DEF Claims, LineClaims, FrameClaims, JoinClaims, Claim, ClaimOf,
                                 R!MemberOf
<1>9. OneClaimEach'
  <2>1. rev \in Nat
    BY <1>2 DEF Typed, LuaTyped
  <2> QED
    BY <1>1, <1>2, <1>8, <2>1, NothingClaimed
<1> QED
  BY <1>3, <1>4, <1>5, <1>6, <1>7, <1>9 DEF ChainInv, Typed

\* What a step leaves alone has not moved.
LEMMA Unmoved ==
  ASSUME ChainInv
  PROVE  /\ link' = link => LinkShape'
         /\ UNCHANGED up => UpMoved
         /\ UNCHANGED cache => CacheMoved
         /\ UNCHANGED <<ctx, down>> => RelayMoved
         /\ UNCHANGED <<outbox, inbox>> => FilesMoved
<1>1. LuaTyped /\ LinkTyped /\ RelayTyped /\ FramesDiscreet
  BY DEF ChainInv, Typed
<1>2. link' = link => LinkShape'
  BY <1>1 DEF LinkTyped, LinkShape
<1>3. UNCHANGED up => UpMoved
  BY <1>1 DEF LinkTyped, UpMoved, Repeats, Known, Claims, JoinClaims
<1>4. UNCHANGED cache => CacheMoved
  BY <1>1 DEF LinkTyped, CacheMoved, Known, Claims
<1>5. UNCHANGED <<ctx, down>> => RelayMoved
  BY <1>1 DEF RelayTyped, RelayMoved, FramesDiscreet, AllDiscreet, Known, Claims, FrameClaims
<1>6. UNCHANGED <<outbox, inbox>> => FilesMoved
  BY <1>1 DEF LuaTyped, FilesMoved, FramesDiscreet, AllDiscreet, Known, Claims, FrameClaims
<1> QED
  BY <1>2, <1>3, <1>4, <1>5, <1>6

LEMMA SendMoves ==
  ASSUME ChainInv, NEW messages, S!SendIfOpen(messages) \/ (S!Send(messages) /\ link.state # "waiting"),
         IsQueue(messages),
         \A m \in Elements(messages) : Repeats(m)
  PROVE  UpMoved
<1>1. LinkTyped
  BY DEF ChainInv, Typed
<1>2. CASE up' = up
  BY <1>2, Unmoved
<1>3. CASE S!Send(messages) /\ link.state # "waiting"
  <2>1. link.sock \in MySocket /\ up' = [up EXCEPT ![link.sock] = @ \o messages]
    BY <1>1, <1>3 DEF LinkTyped, S!Send
  <2>2. DOMAIN up = MySocket
    BY <1>1 DEF LinkTyped
  <2>3. DOMAIN up' = MySocket
    BY <2>1, <2>2
  <2>4. \A s \in MySocket : up'[s] = IF s = link.sock THEN up[s] \o messages ELSE up[s]
    BY <2>1, <2>2
  <2>5. ASSUME NEW s \in MySocket
        PROVE  IsQueue(up'[s]) /\ Elements(up'[s]) \subseteq Elements(up[s]) \cup Elements(messages)
    <3>1. IsQueue(up[s])
      BY <1>1 DEF LinkTyped
    <3> QED
      BY <2>4, <3>1, QueueConcat
  <2>6. ASSUME NEW s \in MySocket, NEW m \in Elements(up[s])
        PROVE  Repeats(m)
    BY <1>1 DEF LinkTyped, Repeats, Known, Claims, JoinClaims
  <2> QED
    BY <2>3, <2>5, <2>6 DEF UpMoved
<1> QED
  BY <1>2, <1>3 DEF S!SendIfOpen, S!IsOpen

LEMMA LineTaken ==
  ASSUME ChainInv, NEW type, S!TakeLine(type), UNCHANGED inbox
  PROVE  /\ FilesMoved /\ S!Line.type = type
         /\ type = "room_change" => S!ContextOf(S!Line) \in Asked /\ Known(Claim(S!ContextOf(S!Line)))
         /\ Talk(S!Line)
<1>1. LuaTyped
  BY DEF ChainInv, Typed
<1>2. /\ IsQueue(outbox') /\ Elements(outbox') \subseteq Elements(outbox)
      /\ S!Line \in Elements(outbox) /\ S!Line.type = type /\ Talk(S!Line)
  BY <1>1, QueueTail DEF S!TakeLine, S!Line, LuaTyped
<1>3. FilesMoved
  <2>1. IsQueue(inbox') /\ \A f \in Elements(inbox') : f.kind = "presence" => Discreet(f) /\ Known(ClaimOf(f))
    BY <1>1 DEF LuaTyped, ChainInv, FramesDiscreet, AllDiscreet, Known, Claims, FrameClaims
  <2> QED
    BY <1>2, <2>1 DEF FilesMoved
<1>4. ASSUME type = "room_change"
      PROVE  S!ContextOf(S!Line) \in Asked /\ Known(Claim(S!ContextOf(S!Line)))
  <2>1. Claim(S!ContextOf(S!Line)) = Claim(S!Line)
    BY DEF Claim, S!ContextOf, R!MemberOf
  <2>2. Claim(S!Line) \in LineClaims(outbox)
    BY <1>2, <1>4 DEF LineClaims
  <2> QED
    BY <1>1, <1>2, <1>4, <2>1, <2>2 DEF LuaTyped, Known, Claims
<1> QED
  BY <1>2, <1>3, <1>4

LEMMA LineStepKeeps ==
  ASSUME ChainInv, LineStep
  PROVE  ChainInv'
<1>1. UNCHANGED <<chatSide, ctx, link, inbox, down>> /\ S!HandleLine
  BY DEF LineStep, relaySide, S!HandleLine, S!RoomChange, S!LeaveCurrentRoom, S!ForwardLine
<1>2. LinkTyped
  BY DEF ChainInv, Typed
<1>3. LinkShape' /\ RelayMoved
  BY <1>1, Unmoved
<1>4. CASE S!RoomChange
  <2>. DEFINE c == S!ContextOf(S!Line)
  <2>1. c \in Asked /\ Known(Claim(c)) /\ FilesMoved /\ cache' = c
    BY <1>1, <1>4, LineTaken DEF S!RoomChange
  <2>2. CacheMoved
    BY <2>1 DEF CacheMoved, Asked, Remembered
  <2>. DEFINE messages == S!Switch(cache.room, c)
  <2>3. IsQueue(messages) /\ Elements(messages) \subseteq {S!LeaveMessage, S!JoinMessage(c)}
    BY QueueOne, QueueTwo DEF S!Switch
  <2>4. \A m \in Elements(messages) : Repeats(m)
    BY <2>1, <2>3 DEF S!LeaveMessage, S!JoinMessage, Repeats, Message, Talk
  <2>5. S!SendIfOpen(messages)
    BY <1>4 DEF S!RoomChange
  <2>6. UpMoved
    BY <2>1, <2>3, <2>4, <2>5, SendMoves
  <2> QED
    BY <1>1, <1>3, <2>1, <2>2, <2>6, AsideKeeps
<1>5. CASE S!LeaveCurrentRoom
  <2>1. FilesMoved
    BY <1>1, <1>5, LineTaken DEF S!LeaveCurrentRoom
  <2>2. CacheMoved
    <3>1. cache' = [cache EXCEPT !.room = NoRoom, !.reveal = FALSE, !.rev = 0]
      BY <1>5 DEF S!LeaveCurrentRoom
    <3>2. cache' \in Remembered /\ cache'.room = NoRoom /\ cache'.rev = 0
      BY <1>2, <3>1 DEF LinkTyped, Remembered
    <3> QED
      BY <3>2 DEF CacheMoved, Known, Claim
  <2>3. IsQueue(<<S!LeaveMessage>>) /\ Elements(<<S!LeaveMessage>>) = {S!LeaveMessage}
    BY QueueOne
  <2>4. UpMoved
    <3>1. CASE up' = up
      BY <3>1, Unmoved
    <3>2. CASE S!SendIfOpen(<<S!LeaveMessage>>)
      BY <2>3, <3>2, SendMoves DEF S!LeaveMessage, Repeats, Message, Talk
    <3> QED
      BY <1>5, <3>1, <3>2 DEF S!LeaveCurrentRoom
  <2> QED
    BY <1>1, <1>3, <2>1, <2>2, <2>4, AsideKeeps
<1>6. CASE S!ForwardLine
  <2>1. FilesMoved /\ S!Line.type = "chat" /\ Talk(S!Line)
    BY <1>1, <1>6, LineTaken DEF S!ForwardLine
  <2>2. IsQueue(<<S!Line>>) /\ Elements(<<S!Line>>) = {S!Line}
    BY QueueOne
  <2>3. UpMoved
    BY <1>6, <2>1, <2>2, SendMoves DEF S!ForwardLine, Repeats, Message
  <2>4. CacheMoved
    BY <1>6, Unmoved DEF S!ForwardLine
  <2> QED
    BY <1>1, <1>3, <2>1, <2>3, <2>4, AsideKeeps
<1> QED
  BY <1>1, <1>4, <1>5, <1>6 DEF S!HandleLine

LEMMA MessageStepKeeps ==
  ASSUME ChainInv, MessageStep
  PROVE  ChainInv'
<1>1. UNCHANGED <<chatSide, ctx, link, cache, outbox, up>> /\ S!OnMessage
  BY DEF MessageStep, relaySide, S!OnMessage
<1>2. LuaTyped /\ LinkTyped /\ RelayTyped /\ FramesDiscreet
  BY DEF ChainInv, Typed
<1>. DEFINE f == Head(down[link.sock])
<1>3. link.sock \in MySocket /\ down[link.sock] # <<>>
      /\ down' = [down EXCEPT ![link.sock] = Tail(@)]
  BY <1>1, <1>2 DEF S!OnMessage, LinkTyped
<1>4. /\ IsQueue(Tail(down[link.sock]))
      /\ Elements(Tail(down[link.sock])) \subseteq Elements(down[link.sock])
      /\ f \in Elements(down[link.sock])
  BY <1>2, <1>3, QueueTail DEF RelayTyped, Socket
<1>5. \A s \in MySocket : \A g \in Elements(down[s]) :
        g.kind = "presence" => Discreet(g) /\ Known(ClaimOf(g))
  BY <1>2 DEF FramesDiscreet, AllDiscreet, Known, Claims, FrameClaims
<1>6. RelayMoved
  <2>1. DOMAIN down = Socket /\ MySocket \subseteq Socket
    BY <1>2 DEF RelayTyped, Socket
  <2>2. DOMAIN down' = Socket /\ \A s \in Socket : down'[s] = IF s = link.sock THEN Tail(down[s]) ELSE down[s]
    BY <1>3, <2>1
  <2>3. \A s \in Socket : IsQueue(down'[s]) /\ Elements(down'[s]) \subseteq Elements(down[s])
    BY <1>2, <1>4, <2>2 DEF RelayTyped
  <2>4. DOMAIN ctx' = Socket /\ \A s \in MySocket : ctx'[s] \in Remembered /\ Known(Claim(ctx'[s]))
    BY <1>1, <1>2 DEF RelayTyped, Known, Claims
  <2> QED
    BY <1>5, <2>1, <2>2, <2>3, <2>4 DEF RelayMoved
<1>7. FilesMoved
  <2>1. IsQueue(inbox) /\ IsQueue(outbox)
    BY <1>2 DEF LuaTyped
  <2>2. IsQueue(inbox') /\ Elements(inbox') \subseteq Elements(inbox) \cup {f}
    <3>1. inbox' = inbox \/ inbox' = Append(inbox, f)
      BY <1>1 DEF S!OnMessage
    <3> QED
      BY <2>1, <3>1, QueueAppend
  <2>3. \A g \in Elements(inbox) : g.kind = "presence" => Discreet(g) /\ Known(ClaimOf(g))
    BY <1>2 DEF FramesDiscreet, AllDiscreet, Known, Claims, FrameClaims
  <2> QED
    BY <1>1, <1>3, <1>4, <1>5, <2>1, <2>2, <2>3 DEF FilesMoved
<1> QED
  BY <1>1, <1>6, <1>7, Unmoved, AsideKeeps

LEMMA LinkStepKeeps ==
  ASSUME ChainInv, OpenStep \/ ClosingStep \/ HangUpStep \/ BreakStep
  PROVE  ChainInv'
<1>1. UNCHANGED <<chatSide, ctx, cache, outbox, inbox, down>>
  BY DEF OpenStep, ClosingStep, HangUpStep, BreakStep, relaySide, S!OnOpen, S!OnClosing, S!OnClose
<1>2. LinkTyped
  BY DEF ChainInv, Typed
<1>3. CacheMoved /\ RelayMoved /\ FilesMoved
  BY <1>1, Unmoved
<1>4. LinkShape'
  BY <1>2 DEF OpenStep, ClosingStep, HangUpStep, BreakStep, S!OnOpen, S!OnClosing, S!OnClose,
              S!Waiting, S!IsOpen, LinkTyped, LinkShape
<1>5. UpMoved
  <2>1. CASE up' = up
    BY <2>1, Unmoved
  <2>2. CASE S!OnOpen /\ cache.room # NoRoom
    <3>1. S!Send(<<S!JoinMessage(cache)>>) /\ link.state # "waiting"
      BY <2>2 DEF S!OnOpen
    <3>2. IsQueue(<<S!JoinMessage(cache)>>) /\ Elements(<<S!JoinMessage(cache)>>) = {S!JoinMessage(cache)}
      BY QueueOne
    <3>3. cache \in Asked /\ Known(Claim(cache))
      BY <1>2, <2>2 DEF LinkTyped, Known, Claims
    <3> QED
      BY <3>1, <3>2, <3>3, SendMoves DEF S!JoinMessage, Repeats, Message, Talk
  <2> QED
    BY <2>1, <2>2 DEF OpenStep, ClosingStep, HangUpStep, BreakStep, S!OnOpen, S!OnClosing, S!OnClose
<1> QED
  BY <1>1, <1>3, <1>4, <1>5, AsideKeeps

\* broadcastPresence: a snapshot claims what the relay holds for its receiver,
\* and without the permission it lists only the receiver and its side.
LEMMA SnapshotHonest ==
  ASSUME NEW r, NEW room, NEW members, NEW cs
  PROVE  /\ R!Snapshot(r, room, members, cs).kind = "presence"
         /\ ClaimOf(R!Snapshot(r, room, members, cs)) = Claim(cs[r])
         /\ Discreet(R!Snapshot(r, room, members, cs))
<1>. DEFINE f == R!Snapshot(r, room, members, cs)
<1>1. f.kind = "presence" /\ ClaimOf(f) = Claim(cs[r])
  BY DEF R!Snapshot, ClaimOf, Claim
<1>2. ASSUME NEW m \in R!Disclosed(r, members, cs), ~cs[r].reveal, m # r
      PROVE  LET e == R!MemberOf(cs[m]) IN
             ~f.to.spectator /\ f.to.team \in Team /\ ~e.spectator /\ e.team = f.to.team
  BY <1>2 DEF R!Disclosed, R!Snapshot, R!MemberOf, R!IsPlayer, R!Team, Team
<1>3. f.reveal = cs[r].reveal /\ f.to = R!MemberOf(cs[r])
      /\ f.members = {R!MemberOf(cs[m]) : m \in R!Disclosed(r, members, cs)}
  BY DEF R!Snapshot
<1>4. Discreet(f)
  BY <1>2, <1>3 DEF Discreet
<1> QED
  BY <1>1, <1>4

\* A queue that only grows by talk and by snapshots for context c.
Follows(q, p, c) ==
  /\ IsQueue(p)
  /\ \A f \in Elements(p) :
       \/ f \in Elements(q) \/ f.kind = "chat"
       \/ f.kind = "presence" /\ Discreet(f) /\ ClaimOf(f) = Claim(c)

LEMMA PresenceFollows ==
  ASSUME NEW q, \A r \in Socket : IsQueue(q[r]), NEW room, NEW members, NEW cs
  PROVE  /\ DOMAIN R!WithPresence(q, room, members, cs) = Socket
         /\ \A r \in Socket : Follows(q[r], R!WithPresence(q, room, members, cs)[r], cs[r])
<1>1. DOMAIN R!WithPresence(q, room, members, cs) = Socket
  BY DEF R!WithPresence
<1>2. ASSUME NEW r \in Socket
      PROVE  Follows(q[r], R!WithPresence(q, room, members, cs)[r], cs[r])
  <2>. DEFINE f == R!Snapshot(r, room, members, cs)
  <2>1. R!WithPresence(q, room, members, cs)[r] \in {q[r], Append(q[r], f)}
    BY DEF R!WithPresence
  <2>2. f.kind = "presence" /\ ClaimOf(f) = Claim(cs[r]) /\ Discreet(f)
    BY SnapshotHonest
  <2>3. IsQueue(Append(q[r], f)) /\ Elements(Append(q[r], f)) = Elements(q[r]) \cup {f}
    BY QueueAppend
  <2>. HIDE DEF f
  <2> QED
    BY <2>1, <2>2, <2>3 DEF Follows
<1> QED
  BY <1>1, <1>2

LEMMA TalkFollows ==
  ASSUME ChainInv, NEW s \in Socket, NEW audience, NEW target, NEW hearers,
         down' = R!WithTalk(s, "chat", audience, target, hearers), ctx' = ctx
  PROVE  RelayMoved
<1>1. RelayTyped /\ FramesDiscreet
  BY DEF ChainInv, Typed
<1>2. DOMAIN down' = Socket
  BY DEF R!WithTalk
<1>3. ASSUME NEW r \in Socket
      PROVE  IsQueue(down'[r]) /\ \A f \in Elements(down'[r]) : f \in Elements(down[r]) \/ f.kind = "chat"
  <2>. DEFINE f == [kind |-> "chat", room |-> ctx[s].room, from |-> R!MemberOf(ctx[s]),
                    to |-> R!MemberOf(ctx[r]), audience |-> audience, target |-> target]
  <2>1. down'[r] \in {down[r], Append(down[r], f)}
    BY DEF R!WithTalk
  <2>2. IsQueue(down[r])
    BY <1>1 DEF RelayTyped
  <2>3. IsQueue(Append(down[r], f)) /\ Elements(Append(down[r], f)) = Elements(down[r]) \cup {f}
    BY <2>2, QueueAppend
  <2>4. f.kind = "chat"
    OBVIOUS
  <2>. HIDE DEF f
  <2> QED
    BY <2>1, <2>2, <2>3, <2>4
<1>4. MySocket \subseteq Socket
  BY DEF Socket
<1> QED
  BY <1>1, <1>2, <1>3, <1>4
     DEF RelayMoved, RelayTyped, FramesDiscreet, AllDiscreet, Known, Claims, FrameClaims

\* removeFromRoom
LEMMA LeftFollows ==
  ASSUME ChainInv, NEW s \in Socket
  PROVE  /\ DOMAIN R!CtxLeft(s) = Socket /\ DOMAIN R!DownLeft(s) = Socket
         /\ \A r \in Socket : r # s => R!CtxLeft(s)[r] = ctx[r]
         /\ s \in MySocket => R!CtxLeft(s)[s] \in Remembered /\ R!CtxLeft(s)[s].rev = 0
         /\ \A r \in Socket : Follows(down[r], R!DownLeft(s)[r], R!CtxLeft(s)[r])
<1>1. RelayTyped
  BY DEF ChainInv, Typed
<1>2. DOMAIN R!CtxLeft(s) = Socket /\ \A r \in Socket : r # s => R!CtxLeft(s)[r] = ctx[r]
  BY <1>1 DEF RelayTyped, R!CtxLeft
<1>3. s \in MySocket => R!CtxLeft(s)[s] \in Remembered /\ R!CtxLeft(s)[s].rev = 0
  <2>1. R!CtxLeft(s)[s] = [ctx[s] EXCEPT !.room = NoRoom, !.reveal = FALSE, !.rev = 0]
    BY <1>1 DEF RelayTyped, R!CtxLeft
  <2>2. ASSUME NEW c \in Remembered
        PROVE  LET l == [c EXCEPT !.room = NoRoom, !.reveal = FALSE, !.rev = 0] IN
               l \in Remembered /\ l.rev = 0
    BY DEF Remembered
  <2> QED
    BY <1>1, <2>1, <2>2 DEF RelayTyped
<1>4. DOMAIN R!DownLeft(s) = Socket /\ \A r \in Socket : Follows(down[r], R!DownLeft(s)[r], R!CtxLeft(s)[r])
  <2>1. CASE R!DownLeft(s) = down
    BY <1>1, <2>1 DEF RelayTyped, Follows
  <2>2. CASE R!DownLeft(s) = R!WithPresence(down, ctx[s].room, R!Rest(s), R!CtxLeft(s))
    BY <1>1, <2>2, PresenceFollows DEF RelayTyped
  <2> QED
    BY <2>1, <2>2 DEF R!DownLeft
<1> QED
  BY <1>2, <1>3, <1>4

\* A step of the relay tells nothing but what it holds.
LEMMA FollowingMoves ==
  ASSUME ChainInv, DOMAIN ctx' = Socket, DOMAIN down' = Socket,
         \A r \in Socket : IsQueue(down'[r]),
         \A r \in MySocket : /\ ctx'[r] \in Remembered /\ Known(Claim(ctx'[r]))
                             /\ \A f \in Elements(down'[r]) :
                                  \/ f \in Elements(down[r]) \/ f.kind = "chat"
                                  \/ f.kind = "presence" /\ Discreet(f) /\ Known(ClaimOf(f))
  PROVE  RelayMoved
<1>1. \A s \in MySocket : \A g \in Elements(down[s]) :
        g.kind = "presence" => Discreet(g) /\ Known(ClaimOf(g))
  BY DEF ChainInv, FramesDiscreet, AllDiscreet, Known, Claims, FrameClaims
<1> QED
  BY <1>1 DEF RelayMoved

LEMMA LeaveMoves ==
  ASSUME ChainInv, NEW s \in Socket, R!Leave(s)
  PROVE  RelayMoved
<1>1. ctx' = R!CtxLeft(s) /\ down' = R!DownLeft(s)
  BY DEF R!Leave
<1>2. RelayTyped /\ MySocket \subseteq Socket
  BY DEF ChainInv, Typed, Socket
<1>3. \A r \in MySocket : ctx'[r] \in Remembered /\ Known(Claim(ctx'[r]))
  BY <1>1, <1>2, LeftFollows DEF RelayTyped, Known, Claims, Claim
<1>4. \A r \in Socket : Follows(down[r], down'[r], ctx'[r])
  BY <1>1, LeftFollows
<1> QED
  BY <1>1, <1>2, <1>3, <1>4, LeftFollows, FollowingMoves DEF Follows

LEMMA CloseMoves ==
  ASSUME ChainInv, NEW s \in Socket, R!Close(s)
  PROVE  RelayMoved
<1>1. ctx' = [ctx EXCEPT ![s] = R!NoContext] /\ down' = [R!DownLeft(s) EXCEPT ![s] = <<>>]
  BY DEF R!Close, R!CloseHandler
<1>2. RelayTyped /\ MySocket \subseteq Socket
  BY DEF ChainInv, Typed, Socket
<1>3. /\ DOMAIN ctx' = Socket /\ DOMAIN down' = Socket
      /\ \A r \in Socket : ctx'[r] = IF r = s THEN R!NoContext ELSE ctx[r]
      /\ \A r \in Socket : down'[r] = IF r = s THEN <<>> ELSE R!DownLeft(s)[r]
  BY <1>1, <1>2, LeftFollows DEF RelayTyped
<1>4. R!NoContext \in Remembered /\ Claim(R!NoContext).rev = 0
  BY DEF R!NoContext, Remembered, Claim
<1>5. \A r \in MySocket : ctx'[r] \in Remembered /\ Known(Claim(ctx'[r]))
  BY <1>2, <1>3, <1>4 DEF RelayTyped, Known, Claims
<1>6. \A r \in Socket : Follows(down[r], down'[r], ctx'[r])
  BY <1>3, LeftFollows, QueueEmpty DEF Follows
<1> QED
  BY <1>2, <1>3, <1>5, <1>6, FollowingMoves DEF Follows

LEMMA JoinMoves ==
  ASSUME ChainInv, NEW s \in Socket, NEW c, R!Join(s, c),
         s \in MySocket => c \in Asked /\ Known(Claim(c))
  PROVE  RelayMoved
<1>1. RelayTyped /\ MySocket \subseteq Socket
  BY DEF ChainInv, Typed, Socket
<1>2. CASE ctx' = R!CtxLeft(s) /\ down' = R!DownLeft(s)
  <2>1. \A r \in MySocket : ctx'[r] \in Remembered /\ Known(Claim(ctx'[r]))
    BY <1>1, <1>2, LeftFollows DEF RelayTyped, Known, Claims, Claim
  <2>2. \A r \in Socket : Follows(down[r], down'[r], ctx'[r])
    BY <1>2, LeftFollows
  <2> QED
    BY <1>1, <1>2, <2>1, <2>2, LeftFollows, FollowingMoves DEF Follows
<1>3. ASSUME NEW room \in R!JoinTargets(c),
             ctx' = R!JoinedCtx(s, room, c),
             down' = R!WithPresence(R!DownLeft(s), room, R!JoinedRooms(s, room)[room],
                                    R!JoinedCtx(s, room, c))
      PROVE  RelayMoved
  <2>. DEFINE e == [room |-> room, user |-> c.user, team |-> c.team,
                    spectator |-> c.spectator, reveal |-> c.reveal, rev |-> c.rev]
  <2>1. ctx' = [R!CtxLeft(s) EXCEPT ![s] = e]
    BY <1>3 DEF R!JoinedCtx
  <2>2. DOMAIN ctx' = Socket /\ \A r \in Socket : ctx'[r] = IF r = s THEN e ELSE ctx[r]
    BY <2>1, LeftFollows
  <2>3. s \in MySocket => e \in Remembered /\ Claim(e) = Claim(c)
    <3>1. Claim(e) = Claim(c)
      BY DEF Claim, R!MemberOf
    <3>2. c \in Asked => room \in Room
      BY DEF Asked, R!JoinTargets
    <3>3. c \in Asked => e \in Remembered
      BY <3>2 DEF Asked, Remembered
    <3> QED
      BY <3>1, <3>3
  <2>. HIDE DEF e
  <2>4. \A r \in MySocket : ctx'[r] \in Remembered /\ Known(Claim(ctx'[r]))
    BY <1>1, <2>2, <2>3 DEF RelayTyped, Known, Claims
  <2>5. \A r \in Socket : IsQueue(R!DownLeft(s)[r])
    BY LeftFollows DEF Follows
  <2>6. DOMAIN down' = Socket /\ \A r \in Socket : Follows(R!DownLeft(s)[r], down'[r], ctx'[r])
    BY <1>3, <2>5, PresenceFollows
  <2>7. ASSUME NEW r \in MySocket, NEW f \in Elements(R!DownLeft(s)[r])
        PROVE  \/ f \in Elements(down[r]) \/ f.kind = "chat"
               \/ f.kind = "presence" /\ Discreet(f) /\ Known(ClaimOf(f))
    <3>1. Follows(down[r], R!DownLeft(s)[r], R!CtxLeft(s)[r])
      BY <1>1, LeftFollows
    <3>2. Known(Claim(R!CtxLeft(s)[r]))
      BY <1>1, LeftFollows DEF Known, Claims, Claim
    <3> QED
      BY <3>1, <3>2 DEF Follows
  <2> QED
    BY <1>1, <2>2, <2>4, <2>6, <2>7, FollowingMoves DEF Follows
<1> QED
  BY <1>2, <1>3 DEF R!Join

----------------------------------------------------------------------------
(* Every step *)

LEMMA ConnectMoves ==
  ASSUME ChainInv, NEW s \in Socket, R!Connect(s)
  PROVE  RelayMoved
<1>1. ctx' = [ctx EXCEPT ![s] = R!NoContext] /\ down' = down
  BY DEF R!Connect
<1>2. RelayTyped /\ MySocket \subseteq Socket
  BY DEF ChainInv, Typed, Socket
<1>3. R!NoContext \in Remembered /\ Claim(R!NoContext).rev = 0
  BY DEF R!NoContext, Remembered, Claim
<1>4. DOMAIN ctx' = Socket /\ \A r \in Socket : ctx'[r] = IF r = s THEN R!NoContext ELSE ctx[r]
  BY <1>1, <1>2 DEF RelayTyped
<1>5. \A r \in MySocket : ctx'[r] \in Remembered /\ Known(Claim(ctx'[r]))
  BY <1>2, <1>3, <1>4 DEF RelayTyped, Known, Claims
<1> QED
  BY <1>1, <1>2, <1>4, <1>5, FollowingMoves DEF RelayTyped

\* A message read or dropped leaves the rest.
LEMMA UpShrinks ==
  ASSUME ChainInv, DOMAIN up' = MySocket,
         \A r \in MySocket : up'[r] \in {up[r], <<>>} \/ (up[r] # <<>> /\ up'[r] = Tail(up[r]))
  PROVE  UpMoved
<1>1. ASSUME NEW r \in MySocket
      PROVE  IsQueue(up'[r]) /\ Elements(up'[r]) \subseteq Elements(up[r])
  BY QueueEmpty, QueueTail DEF ChainInv, Typed, LinkTyped
<1>2. \A r \in MySocket : \A m \in Elements(up[r]) :
        Repeats(m)
  BY DEF ChainInv, Typed, LinkTyped, Repeats, Known, Claims, JoinClaims
<1> QED
  BY <1>1, <1>2 DEF UpMoved

LEMMA DrainKeeps ==
  ASSUME ChainInv, Drain
  PROVE  ChainInv'
<1>1. UNCHANGED <<chatSide, outbox, inbox, cache, link, up, ctx>>
  BY DEF Drain, relaySide
<1>2. down' = [s \in Socket |-> IF s = link.sock THEN down[s] ELSE <<>>]
  BY DEF Drain
<1>3. RelayTyped /\ MySocket \subseteq Socket
  BY DEF ChainInv, Typed, Socket
<1>4. \A r \in Socket : IsQueue(down'[r]) /\ Elements(down'[r]) \subseteq Elements(down[r])
  BY <1>2, <1>3, QueueEmpty DEF RelayTyped
<1>5. RelayMoved
  BY <1>1, <1>2, <1>3, <1>4, FollowingMoves DEF RelayTyped, Known, Claims
<1> QED
  BY <1>1, <1>5, Unmoved, AsideKeeps

LEMMA DialStepKeeps ==
  ASSUME ChainInv, DialStep
  PROVE  ChainInv'
<1>1. PICK s \in MySocket : S!Dial(s) /\ R!Connect(s) /\ UNCHANGED chatSide
  BY DEF DialStep
<1>2. RelayMoved
  BY <1>1, ConnectMoves DEF Socket
<1>3. LinkShape' /\ UNCHANGED <<cache, outbox, inbox, up>>
  BY <1>1 DEF S!Dial, LinkShape
<1> QED
  BY <1>1, <1>2, <1>3, Unmoved, AsideKeeps

LEMMA RelayStepKeeps ==
  ASSUME ChainInv, NEW s \in MySocket, RelayStep(s)
  PROVE  ChainInv'
<1>. DEFINE m == Head(up[s])
<1>1. /\ up[s] # <<>> /\ Handle(s, m) /\ up' = [up EXCEPT ![s] = Tail(@)]
      /\ UNCHANGED <<chatSide, outbox, inbox, cache, link>>
  BY DEF RelayStep
<1>2. LinkTyped /\ s \in Socket
  BY DEF ChainInv, Typed, Socket
<1>3. UpMoved
  BY <1>1, <1>2, UpShrinks DEF LinkTyped
<1>4. m \in Elements(up[s])
  BY <1>1, <1>2, QueueTail DEF LinkTyped
<1>5. RelayMoved
  <2>1. CASE m.type = "join" /\ R!Join(s, m.context)
    <3>1. m.context \in Asked /\ Known(Claim(m.context))
      BY <1>2, <1>4, <2>1 DEF LinkTyped, Message, Known, Claims, JoinClaims
    <3> QED
      BY <1>2, <2>1, <3>1, JoinMoves
  <2>2. CASE R!Leave(s)
    BY <1>2, <2>2, LeaveMoves
  <2>3. CASE R!ChatAll(s) \/ R!ChatTeam(s, m.target)
    <3>1. PICK audience, target, hearers :
            down' = R!WithTalk(s, "chat", audience, target, hearers) /\ ctx' = ctx
      BY <2>3 DEF R!ChatAll, R!ChatTeam
    <3> QED
      BY <1>2, <3>1, TalkFollows
  <2>4. CASE UNCHANGED <<relaySide, down>>
    BY <2>4, Unmoved DEF relaySide
  <2> QED
    BY <1>1, <2>1, <2>2, <2>3, <2>4 DEF Handle
<1> QED
  BY <1>1, <1>3, <1>5, Unmoved, AsideKeeps

LEMMA RelayCloseKeeps ==
  ASSUME ChainInv, NEW s \in MySocket, RelayClose(s)
  PROVE  ChainInv'
<1>1. R!Close(s) /\ up' = [up EXCEPT ![s] = <<>>] /\ UNCHANGED Apart
  BY DEF RelayClose
<1>2. UpMoved
  BY <1>1, UpShrinks DEF ChainInv, Typed, LinkTyped
<1>3. RelayMoved
  BY <1>1, CloseMoves DEF Socket
<1> QED
  BY <1>1, <1>2, <1>3, Unmoved, AsideKeeps DEF Apart

LEMMA RateLimitedKeeps ==
  ASSUME ChainInv, NEW s \in MySocket, RateLimited(s)
  PROVE  ChainInv'
<1>1. /\ up[s] # <<>> /\ up' = [up EXCEPT ![s] = Tail(@)]
      /\ UNCHANGED <<Apart, ctx, down>>
  BY DEF RateLimited, R!BeginClose, relaySide
<1>2. UpMoved
  BY <1>1, UpShrinks DEF ChainInv, Typed, LinkTyped
<1> QED
  BY <1>1, <1>2, Unmoved, AsideKeeps DEF Apart

LEMMA RelayRestartsKeeps ==
  ASSUME ChainInv, RelayRestarts
  PROVE  ChainInv'
<1>1. /\ ctx' = [s \in Socket |-> R!NoContext] /\ down' = [s \in Socket |-> <<>>]
      /\ up' = [s \in MySocket |-> <<>>] /\ UNCHANGED Apart
  BY DEF RelayRestarts, R!Restart
<1>2. UpMoved
  BY <1>1, UpShrinks
<1>3. R!NoContext \in Remembered /\ Claim(R!NoContext).rev = 0
  BY DEF R!NoContext, Remembered, Claim
<1>4. RelayMoved
  BY <1>1, <1>3, QueueEmpty, FollowingMoves DEF Known, Socket
<1> QED
  BY <1>1, <1>2, <1>4, Unmoved, AsideKeeps DEF Apart

LEMMA PeerStepKeeps ==
  ASSUME ChainInv, PeerStep
  PROVE  ChainInv'
<1>1. UNCHANGED <<Apart, up>>
  BY DEF PeerStep
<1>2. PICK p \in Peer :
        \/ R!Connect(p) \/ R!Leave(p) \/ R!Close(p)
        \/ \E m \in PeerJoin : R!Join(p, m)
        \/ PeerTalks /\ R!ChatAll(p)
  BY DEF PeerStep
<1>3. p \in Socket /\ p \notin MySocket
  BY ChainConstants DEF ChainConstants, Socket
<1>4. RelayMoved
  <2>1. CASE R!Connect(p) \/ R!Leave(p) \/ R!Close(p)
    BY <1>3, <2>1, ConnectMoves, LeaveMoves, CloseMoves
  <2>2. CASE \E m \in PeerJoin : R!Join(p, m)
    BY <1>3, <2>2, JoinMoves
  <2>3. CASE R!ChatAll(p)
    <3>1. down' = R!WithTalk(p, "chat", "all", NoTeam, Socket) /\ ctx' = ctx
      BY <2>3 DEF R!ChatAll
    <3> QED
      BY <1>3, <3>1, TalkFollows
  <2> QED
    BY <1>2, <2>1, <2>2, <2>3
<1> QED
  BY <1>1, <1>4, Unmoved, AsideKeeps DEF Apart

LEMMA GameStepKeeps ==
  ASSUME ChainInv, EngineStep \/ LuaStep
  PROVE  ChainInv'
<1>1. UNCHANGED Elsewhere
  BY DEF EngineStep, LuaStep, Others, relaySide, Elsewhere
<1>2. LuaInv /\ OneClaimEach /\ AllDiscreet(inbox)
  BY DEF ChainInv, Typed, LuaInv, FramesDiscreet
<1>3. LuaInv' /\ OneClaimEach' /\ AllDiscreet(inbox')
  <2>1. CASE C!Engine
    BY <1>1, <1>2, <2>1, EngineKeeps
  <2>2. CASE C!Lua
    BY <1>1, <1>2, <2>2, LuaKeeps
  <2> QED
    BY <2>1, <2>2 DEF EngineStep, LuaStep
<1>4. LinkTyped' /\ RelayTyped'
  BY <1>1 DEF ChainInv, Typed, LinkTyped, RelayTyped, Elsewhere
<1>5. FramesDiscreet'
  BY <1>1, <1>3 DEF ChainInv, FramesDiscreet, AllDiscreet, Discreet, Elsewhere
<1> QED
  BY <1>3, <1>4, <1>5 DEF ChainInv, Typed, LuaInv

LEMMA StutterKeeps ==
  ASSUME ChainInv, UNCHANGED vars
  PROVE  ChainInv'
<1>1. UNCHANGED <<chatSide, outbox, inbox, cache, link, up, ctx, down>>
  BY DEF vars, chatSide
<1> QED
  BY <1>1, Unmoved, AsideKeeps

LEMMA ChainInitially == Init => ChainInv
<1>. SUFFICES ASSUME Init PROVE ChainInv
  OBVIOUS
<1>. USE DEF Init
<1>1. C!ChatRoomConstants
  BY ChainConstants DEF ChainConstants
<1>2. /\ cur = C!Nowhere /\ rev = 0 /\ gate = C!Sealed /\ presence = {}
      /\ outbox = <<>> /\ inbox = <<>> /\ cache = S!Empty /\ link = S!Waiting
      /\ up = [s \in MySocket |-> <<>>] /\ down = [s \in Socket |-> <<>>]
      /\ ctx = [s \in Socket |-> R!NoContext]
  BY DEF C!Init, S!Init, PeersIn
<1>3. game \in Shown /\ ~game.playing
  <2>1. game \in [seed: {NoSeed}, playing: {FALSE}, team: {0}, spectator: {FALSE},
                  named: Named, changes: {0}]
    BY DEF C!Init
  <2>2. Named \subseteq BOOLEAN
    BY <1>1 DEF C!ChatRoomConstants
  <2>3. PICK n \in BOOLEAN :
          game = [seed |-> NoSeed, playing |-> FALSE, team |-> 0, spectator |-> FALSE,
                  named |-> n, changes |-> 0]
    BY <2>1, <2>2
  <2>4. \A n0 \in BOOLEAN :
          [seed |-> NoSeed, playing |-> FALSE, team |-> 0, spectator |-> FALSE,
           named |-> n0, changes |-> 0] \in Shown
    BY DEF Shown, Team
  <2> QED
    BY <2>3, <2>4
<1>4. LuaTyped
  BY <1>2, <1>3, QueueEmpty DEF LuaTyped, C!Nowhere, C!Sealed, Present, Permission
<1>5. LinkTyped
  BY <1>2, QueueEmpty DEF LinkTyped, S!Empty, S!Waiting, Remembered
<1>6. RelayTyped
  BY <1>2, QueueEmpty DEF RelayTyped, R!NoContext, Remembered, Socket
<1>7. Live = {}
  BY <1>2, QueueEmpty DEF Live, Claims, LineClaims, JoinClaims, FrameClaims, Claim, S!Empty,
                          R!NoContext, Socket
<1>8. OneClaimEach
  BY <1>7 DEF OneClaimEach
<1>9. GateHonest /\ PregamePrivacy /\ FramesDiscreet
  BY <1>2, <1>3, QueueEmpty DEF GateHonest, C!Sealed, PregamePrivacy, FramesDiscreet, AllDiscreet, Socket
<1> QED
  BY <1>4, <1>5, <1>6, <1>8, <1>9 DEF ChainInv, Typed

LEMMA ChainInductive == ChainInv /\ [Next]_vars => ChainInv'
<1>. SUFFICES ASSUME ChainInv, [Next]_vars PROVE ChainInv'
  OBVIOUS
<1>1. CASE Drain
  BY <1>1, DrainKeeps
<1>2. CASE EngineStep \/ LuaStep
  BY <1>2, GameStepKeeps
<1>3. CASE LineStep \/ MessageStep
  BY <1>3, LineStepKeeps, MessageStepKeeps
<1>4. CASE OpenStep \/ ClosingStep \/ HangUpStep \/ BreakStep
  BY <1>4, LinkStepKeeps
<1>5. CASE DialStep
  BY <1>5, DialStepKeeps
<1>6. CASE \E s \in MySocket : RelayStep(s) \/ RelayClose(s) \/ RateLimited(s)
  BY <1>6, RelayStepKeeps, RelayCloseKeeps, RateLimitedKeeps
<1>7. CASE RelayRestarts
  BY <1>7, RelayRestartsKeeps
<1>8. CASE PeerStep
  BY <1>8, PeerStepKeeps
<1>9. CASE UNCHANGED vars
  BY <1>9, StutterKeeps
<1> QED
  BY <1>1, <1>2, <1>3, <1>4, <1>5, <1>6, <1>7, <1>8, <1>9 DEF Next

\* A snapshot whose tags pass was built for the context that it passes for.
LEMMA TagsFollow == ChainInv => TagsIdentifyContext
<1>. SUFFICES ASSUME ChainInv, NEW f \in InFlight, f.kind = "presence"
              PROVE  /\ C!Accepts(f) =>
                          f.to = [user |-> cur.user, team |-> cur.team, spectator |-> cur.spectator]
                     /\ S!MatchesCache(f) =>
                          f.to = [user |-> cache.user, team |-> cache.team,
                                  spectator |-> cache.spectator]
  BY DEF TagsIdentifyContext
<1>1. Typed /\ OneClaimEach
  BY DEF ChainInv
<1>2. ClaimOf(f) \in Claims
  BY DEF InFlight, Claims, FrameClaims, Elements
<1>3. ClaimOf(f).rev = f.rev /\ ClaimOf(f).to = f.to
  BY DEF ClaimOf
<1>4. ASSUME C!Accepts(f) PROVE f.to = R!MemberOf(cur)
  <2>1. cur.room # NoRoom /\ f.rev = rev /\ rev # 0
    BY <1>1, <1>4 DEF C!Accepts, Typed, LuaTyped
  <2> QED
    BY <1>1, <1>2, <1>3, <2>1 DEF Live, OneClaimEach
<1>5. ASSUME S!MatchesCache(f) PROVE f.to = R!MemberOf(cache)
  <2>1. cache \in Asked /\ f.rev = cache.rev
    BY <1>1, <1>5 DEF S!MatchesCache, Typed, LinkTyped
  <2>2. Claim(cache) \in Claims /\ Claim(cache).rev = cache.rev /\ Claim(cache).to = R!MemberOf(cache)
    BY DEF Claims, Claim
  <2>3. cache.rev # 0
    BY <2>1 DEF Asked
  <2> QED
    BY <1>1, <1>2, <1>3, <2>1, <2>2, <2>3 DEF Live, OneClaimEach
<1> QED
  BY <1>4, <1>5 DEF R!MemberOf

\* Tags stand for contexts in every reachable state: Lua and the sidecar, which
\* compare only room, revision and permission (chat.lua setPresence, index.js
\* presenceMatchesCurrentContext), never take a snapshot built for another role.
THEOREM ChainTags == Spec => []TagsIdentifyContext
<1>1. Spec => []ChainInv
  BY ChainInitially, ChainInductive, PTL DEF Spec
<1> QED
  BY <1>1, TagsFollow, PTL

\* No interleaving of reconnects, retries, role changes, restarts and late
\* frames shows an opponent's name before the gameplay of the match was seen
\* (chat.lua tryJoinRoom and setPresence, server/index.js broadcastPresence).
THEOREM ChainPrivacy == Spec => []PregamePrivacy
<1>1. Spec => []ChainInv
  BY ChainInitially, ChainInductive, PTL DEF Spec
<1>2. ChainInv => PregamePrivacy
  BY DEF ChainInv
<1> QED
  BY <1>1, <1>2, PTL

----------------------------------------------------------------------------
(* The places a queue leads through *)

\* Where a party has the player: in a room with all that was claimed for it, or
\* nowhere, whatever it still remembers from before.
Place(c) == IF c.room = NoRoom THEN S!Empty ELSE c

\* The place after line or message m, when a was the place before it.
After(m, a) ==
  CASE m.type = "room_change" -> S!ContextOf(m)
    [] m.type = "join" -> m.context
    [] m.type \in {"room_leave", "leave"} -> S!Empty
    [] OTHER -> a

\* f lists the places from a to b that q leads through; every chat line in q
\* stands where its room is the present one, and where only chat is left the
\* last place is reached.
Through(q, f, a, b) ==
  /\ f[0] = a /\ f[Len(q)] = b
  /\ \A i \in 1..Len(q) : /\ f[i] = After(q[i], f[i - 1])
                          /\ q[i].type = "chat" => q[i].tag = f[i - 1].room
  /\ \A i \in 0..Len(q) : (\A j \in i + 1..Len(q) : q[j].type = "chat") => f[i] = b

Leads(q, a, b) == \E f : Through(q, f, a, b)

LEMMA LeadsNowhere == \A a : Leads(<<>>, a, a)
<1>. TAKE a
<1>. DEFINE f == [i \in {0} |-> a]
<1>1. Through(<<>>, f, a, a)
  BY DEF Through
<1> QED
  BY <1>1 DEF Leads

LEMMA LeadsTail ==
  ASSUME NEW q, IsQueue(q), q # <<>>, NEW a, NEW b, Leads(q, a, b)
  PROVE  /\ Leads(Tail(q), After(Head(q), a), b)
         /\ Head(q).type = "chat" => Head(q).tag = a.room
<1>1. PICK f : Through(q, f, a, b)
  BY DEF Leads
<1>. DEFINE p == Tail(q)  g == [i \in 0..Len(p) |-> f[i + 1]]
<1>2. q \in Seq(Elements(q))
  BY DEF IsQueue
<1>3. /\ Len(q) \in Nat /\ Len(q) # 0 /\ Len(p) = Len(q) - 1
      /\ \A i \in 1..Len(p) : p[i] = q[i + 1]
      /\ Head(q) = q[1]
  BY <1>2
<1>. HIDE DEF p
<1>4. f[1] = After(Head(q), a) /\ (Head(q).type = "chat" => Head(q).tag = a.room)
  <2>1. 1 \in 1..Len(q) /\ 1 - 1 = 0
    BY <1>3
  <2> QED
    BY <1>1, <1>3, <2>1 DEF Through
<1>5. g[0] = f[1] /\ g[Len(p)] = b
  BY <1>1, <1>3 DEF Through
<1>6. ASSUME NEW i \in 1..Len(p)
      PROVE  g[i] = After(p[i], g[i - 1]) /\ (p[i].type = "chat" => p[i].tag = g[i - 1].room)
  <2>1. i + 1 \in 1..Len(q) /\ (i + 1) - 1 = i /\ i \in 0..Len(p) /\ i - 1 \in 0..Len(p)
        /\ (i - 1) + 1 = i
    BY <1>3
  <2>2. p[i] = q[i + 1] /\ g[i] = f[i + 1] /\ g[i - 1] = f[i]
    BY <1>3, <2>1
  <2>3. /\ f[i + 1] = After(q[i + 1], f[(i + 1) - 1])
        /\ q[i + 1].type = "chat" => q[i + 1].tag = f[(i + 1) - 1].room
    BY <1>1, <2>1 DEF Through
  <2> QED
    BY <2>1, <2>2, <2>3
<1>7. ASSUME NEW i \in 0..Len(p), \A j \in i + 1..Len(p) : p[j].type = "chat"
      PROVE  g[i] = b
  <2>1. i + 1 \in 0..Len(q)
    BY <1>3
  <2>2. ASSUME NEW j \in (i + 1) + 1..Len(q) PROVE q[j].type = "chat"
    <3>1. j - 1 \in i + 1..Len(p) /\ j - 1 \in 1..Len(p) /\ (j - 1) + 1 = j
      BY <1>3
    <3> QED
      BY <1>3, <1>7, <3>1
  <2>3. f[i + 1] = b
    BY <1>1, <2>1, <2>2 DEF Through
  <2> QED
    BY <2>3
<1>. HIDE DEF g
<1>8. Through(p, g, After(Head(q), a), b)
  BY <1>4, <1>5, <1>6, <1>7 DEF Through
<1>9. Leads(p, After(Head(q), a), b)
  BY <1>8 DEF Leads
<1> QED
  BY <1>4, <1>9 DEF p

LEMMA LeadsOn ==
  ASSUME NEW q, IsQueue(q), NEW a, NEW b, Leads(q, a, b),
         NEW m, m.type = "chat" => m.tag = b.room
  PROVE  Leads(Append(q, m), a, After(m, b))
<1>1. PICK f : Through(q, f, a, b)
  BY DEF Leads
<1>. DEFINE p == Append(q, m)
            g == [i \in 0..Len(q) + 1 |-> IF i = Len(q) + 1 THEN After(m, b) ELSE f[i]]
<1>2. q \in Seq(Elements(q) \cup {m})
  BY DEF IsQueue
<1>3. /\ Len(q) \in Nat /\ Len(p) = Len(q) + 1 /\ p[Len(q) + 1] = m
      /\ \A i \in 1..Len(q) : p[i] = q[i]
  BY <1>2
<1>. HIDE DEF p
<1>4. /\ g[0] = a /\ g[Len(p)] = After(m, b) /\ g[Len(q)] = b
      /\ \A i \in 0..Len(q) : g[i] = f[i]
  BY <1>1, <1>3 DEF Through
<1>. HIDE DEF g
<1>5. ASSUME NEW i \in 1..Len(p)
      PROVE  g[i] = After(p[i], g[i - 1]) /\ (p[i].type = "chat" => p[i].tag = g[i - 1].room)
  <2>1. CASE i = Len(q) + 1
    <3>1. i - 1 = Len(q)
      BY <1>3, <2>1
    <3> QED
      BY <1>3, <1>4, <2>1, <3>1
  <2>2. CASE i # Len(q) + 1
    <3>1. i \in 1..Len(q) /\ i \in 0..Len(q) /\ i - 1 \in 0..Len(q)
      BY <1>3, <2>2
    <3>2. p[i] = q[i] /\ g[i] = f[i] /\ g[i - 1] = f[i - 1]
      BY <1>3, <1>4, <3>1
    <3> QED
      BY <1>1, <3>1, <3>2 DEF Through
  <2> QED
    BY <2>1, <2>2
<1>6. ASSUME NEW i \in 0..Len(p), \A j \in i + 1..Len(p) : p[j].type = "chat"
      PROVE  g[i] = After(m, b)
  <2>1. CASE i = Len(q) + 1
    BY <1>3, <1>4, <2>1
  <2>2. CASE i # Len(q) + 1
    <3>1. i \in 0..Len(q) /\ Len(q) + 1 \in i + 1..Len(p)
      BY <1>3, <2>2
    <3>2. m.type = "chat"
      BY <1>3, <1>6, <3>1
    <3>3. \A j \in i + 1..Len(q) : j \in 1..Len(q) /\ j \in i + 1..Len(p)
      BY <1>3, <3>1
    <3>4. \A j \in i + 1..Len(q) : q[j].type = "chat"
      BY <1>3, <1>6, <3>3
    <3>5. f[i] = b
      BY <1>1, <3>1, <3>4 DEF Through
    <3> QED
      BY <1>4, <3>1, <3>2, <3>5 DEF After
  <2> QED
    BY <2>1, <2>2
<1>7. Through(p, g, a, After(m, b))
  BY <1>4, <1>5, <1>6 DEF Through
<1>8. Leads(p, a, After(m, b))
  BY <1>7 DEF Leads
<1> QED
  BY <1>8 DEF p

\* A queue of chat leads nowhere else.
LEMMA LeadsNoFurther ==
  ASSUME NEW q, IsQueue(q), OnlyTalk(q), NEW a, NEW b, Leads(q, a, b)
  PROVE  a = b
<1>1. PICK f : Through(q, f, a, b)
  BY DEF Leads
<1>2. Len(q) \in Nat
  BY DEF IsQueue
<1>3. 0 \in 0..Len(q) /\ \A j \in 0 + 1..Len(q) : q[j].type = "chat"
  BY <1>2 DEF OnlyTalk
<1> QED
  BY <1>1, <1>3 DEF Through

LEMMA OneByOne ==
  ASSUME NEW q, IsQueue(q), NEW m
  PROVE  /\ q \o <<m>> = Append(q, m)
         /\ \A n : q \o <<m, n>> = Append(Append(q, m), n)
<1>. DEFINE T == Elements(q)
<1>1. q \in Seq(T)
  BY DEF IsQueue
<1>2. q \o <<m>> = Append(q, m)
  <2>1. q \in Seq(T \cup {m}) /\ <<m>> \in Seq(T \cup {m})
    BY <1>1
  <2> QED
    BY <2>1, AppendIsConcat
<1>3. ASSUME NEW n PROVE q \o <<m, n>> = Append(Append(q, m), n)
  <2>1. q \in Seq(T \cup {m, n})
    BY <1>1
  <2>2. q \o <<m, n>> \in Seq(T \cup {m, n}) /\ Append(Append(q, m), n) \in Seq(T \cup {m, n})
    BY <2>1
  <2>3. /\ Len(q \o <<m, n>>) = Len(q) + 2 /\ Len(Append(Append(q, m), n)) = Len(q) + 2
        /\ \A i \in 1..Len(q) + 2 : (q \o <<m, n>>)[i] = Append(Append(q, m), n)[i]
    BY <2>1
  <2> QED
    BY <2>2, <2>3, SeqEqual
<1> QED
  BY <1>2, <1>3

----------------------------------------------------------------------------
(* The route of a line *)

\* From the relay's place for s to the one that the sidecar has sent it to.
Route(s) ==
  state[s] = "open" =>
    /\ \E b : Leads(up[s], Place(ctx[s]), b)
    /\ link.sock = s /\ link.state = "open" => Leads(up[s], Place(ctx[s]), Place(cache))
    /\ link.sock = s /\ link.state = "connecting" => up[s] = <<>> /\ ctx[s].room = NoRoom

\* The place Lua has asked for last: in its room, and as what it is there
\* unless the join has been found to be out of date.
Wished(b) == b.room = cur.room /\ (Joined => b = Mine)

Routes ==
  /\ DOMAIN state = Socket
  /\ \E b : Leads(outbox, Place(cache), b) /\ Wished(b)
  /\ \A s \in MySocket : Route(s)

LEMMA RoutesPrimed ==
  ASSUME DOMAIN state' = Socket, \A s \in MySocket : Route(s)',
         NEW b, Leads(outbox', Place(cache'), b), b.room = cur'.room, Joined' => b = Mine'
  PROVE  Routes'
<1>1. (\E d : Leads(outbox, Place(cache), d) /\ Wished(d))'
  BY DEF Leads, Through, After, Place, Wished, S!Empty, S!ContextOf
<1> QED
  BY <1>1 DEF Routes

LEMMA PlaceRoom == \A c : Place(c).room = c.room
BY DEF Place, S!Empty

LEMMA RoutePrimed ==
  ASSUME NEW s,
         state'[s] = "open" =>
           /\ \E b : Leads(up'[s], Place(ctx'[s]), b)
           /\ link'.sock = s /\ link'.state = "open" => Leads(up'[s], Place(ctx'[s]), Place(cache'))
           /\ link'.sock = s /\ link'.state = "connecting" => up'[s] = <<>> /\ ctx'[s].room = NoRoom
  PROVE  Route(s)'
BY DEF Route, Leads, Through, After, Place, S!Empty, S!ContextOf

\* A socket that a step leaves alone keeps its route.
LEMMA RouteStays ==
  ASSUME NEW s, Route(s),
         state'[s] = "open" => state[s] = "open" /\ up'[s] = up[s] /\ ctx'[s] = ctx[s],
         \/ link' = link /\ Place(cache') = Place(cache)
         \/ link'.state \notin {"open", "connecting"} \/ link'.sock # s
  PROVE  Route(s)'
<1>1. CASE state'[s] # "open"
  BY <1>1 DEF Route
<1>2. CASE state'[s] = "open"
  <2>1. state[s] = "open" /\ up'[s] = up[s] /\ ctx'[s] = ctx[s]
    BY <1>2
  <2>2. \A b : Leads(up[s], Place(ctx[s]), b) <=> Leads(up'[s], Place(ctx'[s]), b)
    BY <2>1
  <2>3. \E b : Leads(up'[s], Place(ctx'[s]), b)
    BY <2>1, <2>2 DEF Route
  <2>4. link'.sock = s /\ link'.state = "open" => Leads(up'[s], Place(ctx'[s]), Place(cache'))
    BY <2>1, <2>2 DEF Route
  <2>5. link'.sock = s /\ link'.state = "connecting" => up'[s] = <<>> /\ ctx'[s].room = NoRoom
    BY <2>1 DEF Route
  <2> QED
    BY <2>3, <2>4, <2>5, RoutePrimed
<1> QED
  BY <1>1, <1>2

LEMMA GameRoutes ==
  ASSUME ChainInv, Routes, EngineStep \/ LuaStep
  PROVE  Routes'
<1>1. LuaTyped
  BY DEF ChainInv, Typed
<1>2. UNCHANGED <<cache, link, up, state, ctx>>
  BY DEF EngineStep, LuaStep, Others, relaySide
<1>3. \A s \in MySocket : Route(s)'
  BY <1>2, RouteStays DEF Routes
<1>4. PICK a : Leads(outbox, Place(cache), a) /\ a.room = cur.room /\ (Joined => a = Mine)
  BY DEF Routes, Wished
<1>5. \E b : Leads(outbox', Place(cache), b) /\ b.room = cur'.room /\ (Joined' => b = Mine')
  <2>1. CASE outbox' = outbox /\ cur'.room = cur.room /\ (Joined' => cur' = cur /\ rev' = rev)
    <3>1. Joined' => Joined /\ Mine' = Mine
      BY <2>1 DEF Joined, Mine
    <3> QED
      BY <1>4, <2>1, <3>1
  <2>2. CASE \E t : C!TryJoinRoom(t)
    <3>1. PICK t : C!TryJoinRoom(t)
      BY <2>2
    <3>2. CASE C!JoinUnchanged(t)
      <4>1. cur' = C!CurNow /\ outbox' = outbox /\ rev' = rev /\ cur'.seed = game.seed
        BY <3>2 DEF C!JoinUnchanged, C!Wanted
      <4>2. cur'.room = cur.room /\ cur'.seed = cur.seed
        BY <1>1, <4>1 DEF LuaTyped, C!CurNow, Present
      <4>3. Joined' => cur' = cur
        BY <1>1, <4>1, <4>2 DEF Joined, LuaTyped, C!CurNow
      <4> QED
        BY <2>1, <4>1, <4>2, <4>3
    <3>3. CASE C!JoinRetry(t) \/ C!JoinGiveUp(t)
      <4>1. outbox' = outbox /\ cur' = C!Kept(C!CurNow)
        BY <3>3 DEF C!JoinRetry, C!JoinGiveUp, C!Invalidate
      <4>2. cur'.room = cur.room /\ ~Joined'
        BY <1>1, <4>1 DEF LuaTyped, C!CurNow, C!Kept, Present, Joined
      <4> QED
        BY <2>1, <4>1, <4>2
    <3>4. CASE C!JoinRoom(t)
      <4>. DEFINE line == [type |-> "room_change", room |-> C!Wanted.room, user |-> C!Wanted.user,
                           team |-> C!Wanted.team, spectator |-> C!Wanted.spectator,
                           reveal |-> C!Wanted.reveal, rev |-> rev']
      <4>1. outbox' = Append(outbox, line) /\ cur' = C!Wanted
        BY <3>4 DEF C!JoinRoom, C!Invalidate, C!Write
      <4>2. After(line, a) = Mine' /\ line.type # "chat" /\ Mine'.room = cur'.room
        BY <4>1 DEF After, Mine, S!ContextOf
      <4>. HIDE DEF line
      <4>3. Leads(outbox', Place(cache), Mine')
        BY <1>1, <1>4, <4>1, <4>2, LeadsOn DEF LuaTyped
      <4> QED
        BY <4>2, <4>3
    <3> QED
      BY <3>1, <3>2, <3>3, <3>4 DEF C!TryJoinRoom
  <2>3. CASE C!LeaveRoom
    <3>1. CASE cur.room = NoRoom
      <4>1. cur' = [cur EXCEPT !.reveal = FALSE] /\ outbox' = outbox
        BY <2>3, <3>1 DEF C!LeaveRoom
      <4>2. cur'.room = cur.room /\ ~Joined'
        BY <1>1, <3>1, <4>1 DEF LuaTyped, Present, Joined
      <4> QED
        BY <2>1, <4>1, <4>2
    <3>2. CASE cur.room # NoRoom
      <4>. DEFINE line == [type |-> "room_leave"]
      <4>1. cur' = C!Nowhere /\ outbox' = Append(outbox, line)
        BY <2>3, <3>2 DEF C!LeaveRoom, C!Write
      <4>2. /\ After(line, a) = S!Empty /\ line.type # "chat"
            /\ S!Empty.room = cur'.room /\ ~Joined'
        BY <4>1 DEF After, C!Nowhere, S!Empty, Joined
      <4>. HIDE DEF line
      <4>3. Leads(outbox', Place(cache), S!Empty)
        BY <1>1, <1>4, <4>1, <4>2, LeadsOn DEF LuaTyped
      <4> QED
        BY <4>2, <4>3
    <3> QED
      BY <3>1, <3>2
  <2>4. CASE \E x \in Audience : C!PollPending(x)
    <3>1. PICK x \in Audience : C!PollPending(x)
      BY <2>4
    <3>. DEFINE line == [type |-> "chat", audience |-> x.audience, target |-> x.target,
                         tag |-> cur.room]
    <3>2. outbox' = Append(outbox, line) /\ cur' = cur /\ rev' = rev
      BY <3>1 DEF C!PollPending, C!Write
    <3>3. After(line, a) = a /\ line.tag = a.room
      BY <1>4 DEF After
    <3>. HIDE DEF line
    <3>4. Leads(outbox', Place(cache), a)
      BY <1>1, <1>4, <3>2, <3>3, LeadsOn DEF LuaTyped
    <3> QED
      BY <1>4, <3>2, <3>4 DEF Joined, Mine
  <2>5. CASE C!Engine \/ C!ProbeFires \/ C!ReadInbox \/ C!TypeLine
    <3>1. outbox' = outbox /\ cur' = cur /\ rev' = rev
      BY <2>5 DEF C!Engine, C!NewMatch, C!GameplayBegins, C!GameplayPauses, C!MatchGone,
                  C!NameResolved, C!Reassigned, C!Changed, C!ProbeFires, C!ReadInbox, C!TypeLine
    <3> QED
      BY <2>1, <3>1
  <2> QED
    BY <2>2, <2>3, <2>4, <2>5
       DEF EngineStep, LuaStep, C!Lua, C!TickMatchProbe, C!DelayFires, C!RoomCheckFires,
           C!OnMatchStateChanged, C!EndMatch, C!MapLoaded
<1>6. PICK b : Leads(outbox', Place(cache), b) /\ b.room = cur'.room /\ (Joined' => b = Mine')
  BY <1>5
<1>7. Leads(outbox', Place(cache'), b)
  BY <1>2, <1>6
<1>8. DOMAIN state' = Socket
  BY <1>2 DEF Routes
<1> QED
  BY <1>3, <1>6, <1>7, <1>8, RoutesPrimed

\* What the sidecar sends on its socket leads on from where it was.
LEMMA SendRoutes ==
  ASSUME ChainInv, Routes, UNCHANGED <<link, state, ctx>>, NEW messages,
         S!SendIfOpen(messages),
         \A q, a : IsQueue(q) /\ Leads(q, a, Place(cache)) => Leads(q \o messages, a, Place(cache'))
  PROVE  \A s \in MySocket : Route(s)'
<1>. SUFFICES ASSUME NEW s \in MySocket PROVE Route(s)'
  OBVIOUS
<1>1. LinkTyped /\ Route(s)
  BY DEF ChainInv, Typed, Routes
<1>2. CASE ~(link.state = "open" /\ link.sock = s)
  <2>1. up'[s] = up[s]
    BY <1>1, <1>2 DEF S!SendIfOpen, S!Send, S!IsOpen, LinkTyped
  <2>2. \A b : Leads(up[s], Place(ctx[s]), b) <=> Leads(up'[s], Place(ctx'[s]), b)
    BY <2>1
  <2>3. state'[s] = "open" => \E b : Leads(up'[s], Place(ctx'[s]), b)
    BY <1>1, <2>2 DEF Route
  <2>4. state'[s] = "open" /\ link'.sock = s /\ link'.state = "connecting" =>
          up'[s] = <<>> /\ ctx'[s].room = NoRoom
    BY <1>1, <2>1 DEF Route
  <2> QED
    BY <1>2, <2>3, <2>4, RoutePrimed
<1>3. CASE link.state = "open" /\ link.sock = s /\ state[s] = "open"
  <2>1. Leads(up[s], Place(ctx[s]), Place(cache))
    BY <1>1, <1>3 DEF Route
  <2>2. up'[s] = up[s] \o messages
    BY <1>1, <1>3 DEF S!SendIfOpen, S!Send, S!IsOpen, LinkTyped
  <2>3. Leads(up'[s], Place(ctx'[s]), Place(cache'))
    BY <1>1, <2>1, <2>2 DEF LinkTyped
  <2> QED
    BY <1>3, <2>3, RoutePrimed
<1>4. CASE state[s] # "open"
  BY <1>4 DEF Route
<1> QED
  BY <1>2, <1>3, <1>4

LEMMA LineRoutes ==
  ASSUME ChainInv, Routes, LineStep
  PROVE  Routes'
<1>1. LuaTyped /\ LinkTyped
  BY DEF ChainInv, Typed
<1>2. UNCHANGED <<cur, rev, link, state, ctx>> /\ S!HandleLine
  BY DEF LineStep, chatSide, relaySide, S!HandleLine, S!RoomChange, S!LeaveCurrentRoom, S!ForwardLine
<1>3. outbox # <<>> /\ outbox' = Tail(outbox)
  BY <1>2 DEF S!HandleLine, S!RoomChange, S!LeaveCurrentRoom, S!ForwardLine, S!TakeLine
<1>a. PICK b : Leads(outbox, Place(cache), b) /\ b.room = cur.room /\ (Joined => b = Mine)
  BY DEF Routes, Wished
<1>4. /\ Leads(outbox', After(S!Line, Place(cache)), b)
      /\ S!Line.type = "chat" => S!Line.tag = Place(cache).room
      /\ S!Line \in Elements(outbox)
  BY <1>1, <1>3, <1>a, LeadsTail, QueueTail DEF LuaTyped, S!Line
<1>5. Place(cache') = After(S!Line, Place(cache)) /\ \A s \in MySocket : Route(s)'
  <2>1. CASE S!RoomChange
    <3>. DEFINE c == S!ContextOf(S!Line)
    <3>1. S!Line.type = "room_change" /\ cache' = c /\ S!SendIfOpen(S!Switch(cache.room, c))
      BY <2>1 DEF S!RoomChange, S!TakeLine
    <3>2. Place(cache') = c /\ c = After(S!Line, Place(cache))
      <4>1. c.room \in Room
        BY <1>1, <1>4, <3>1 DEF LuaTyped, Asked
      <4> QED
        BY <3>1, <4>1, ChainConstants DEF After, Place, ChainConstants
    <3>. HIDE DEF c
    <3>3. ASSUME NEW q, NEW a, IsQueue(q), Leads(q, a, Place(cache))
          PROVE  Leads(q \o S!Switch(cache.room, c), a, Place(cache'))
      <4>1. CASE S!Switch(cache.room, c) = <<S!JoinMessage(c)>>
        <5>1. Leads(Append(q, S!JoinMessage(c)), a, c)
          <6>1. After(S!JoinMessage(c), Place(cache)) = c /\ S!JoinMessage(c).type # "chat"
            BY DEF After, S!JoinMessage
          <6> QED
            BY <3>3, <6>1, LeadsOn
        <5>2. q \o S!Switch(cache.room, c) = Append(q, S!JoinMessage(c))
          BY <3>3, <4>1, OneByOne
        <5> QED
          BY <3>2, <5>1, <5>2
      <4>2. CASE S!Switch(cache.room, c) = <<S!LeaveMessage, S!JoinMessage(c)>>
        <5>1. /\ After(S!LeaveMessage, Place(cache)) = S!Empty /\ S!LeaveMessage.type # "chat"
              /\ After(S!JoinMessage(c), S!Empty) = c /\ S!JoinMessage(c).type # "chat"
          BY DEF After, S!JoinMessage, S!LeaveMessage
        <5>2. IsQueue(Append(q, S!LeaveMessage)) /\ Leads(Append(q, S!LeaveMessage), a, S!Empty)
          BY <3>3, <5>1, LeadsOn, QueueAppend
        <5>3. Leads(Append(Append(q, S!LeaveMessage), S!JoinMessage(c)), a, c)
          BY <5>1, <5>2, LeadsOn
        <5>4. q \o S!Switch(cache.room, c) = Append(Append(q, S!LeaveMessage), S!JoinMessage(c))
          BY <3>3, <4>2, OneByOne
        <5> QED
          BY <3>2, <5>3, <5>4
      <4> QED
        BY <4>1, <4>2 DEF S!Switch
    <3> QED
      BY <1>2, <3>1, <3>2, <3>3, SendRoutes
  <2>2. CASE S!LeaveCurrentRoom
    <3>1. /\ S!Line.type = "room_leave"
          /\ cache' = [cache EXCEPT !.room = NoRoom, !.reveal = FALSE, !.rev = 0]
          /\ IF cache.room = NoRoom THEN up' = up ELSE S!SendIfOpen(<<S!LeaveMessage>>)
      BY <2>2 DEF S!LeaveCurrentRoom, S!TakeLine
    <3>2. Place(cache') = S!Empty /\ After(S!Line, Place(cache)) = S!Empty
      BY <1>1, <3>1 DEF LinkTyped, Remembered, After, Place
    <3>3. CASE cache.room = NoRoom
      <4>1. Place(cache) = S!Empty
        BY <3>3 DEF Place
      <4> QED
        BY <1>2, <3>1, <3>2, <3>3, <4>1, RouteStays DEF Routes
    <3>4. CASE cache.room # NoRoom
      <4>1. ASSUME NEW q, NEW a, IsQueue(q), Leads(q, a, Place(cache))
            PROVE  Leads(q \o <<S!LeaveMessage>>, a, Place(cache'))
        <5>1. After(S!LeaveMessage, Place(cache)) = S!Empty /\ S!LeaveMessage.type # "chat"
          BY DEF After, S!LeaveMessage
        <5>2. Leads(Append(q, S!LeaveMessage), a, S!Empty)
          BY <4>1, <5>1, LeadsOn
        <5>3. q \o <<S!LeaveMessage>> = Append(q, S!LeaveMessage)
          BY <4>1, OneByOne
        <5> QED
          BY <3>2, <5>2, <5>3
      <4> QED
        BY <1>2, <3>1, <3>2, <3>4, <4>1, SendRoutes
    <3> QED
      BY <3>3, <3>4
  <2>3. CASE S!ForwardLine
    <3>1. S!Line.type = "chat" /\ cache' = cache /\ S!SendIfOpen(<<S!Line>>)
      BY <2>3 DEF S!ForwardLine, S!TakeLine
    <3>2. After(S!Line, Place(cache)) = Place(cache) /\ S!Line.tag = Place(cache).room
      BY <1>4, <3>1 DEF After
    <3>3. ASSUME NEW q, NEW a, IsQueue(q), Leads(q, a, Place(cache))
          PROVE  Leads(q \o <<S!Line>>, a, Place(cache'))
      <4>1. Leads(Append(q, S!Line), a, Place(cache))
        BY <3>2, <3>3, LeadsOn
      <4>2. q \o <<S!Line>> = Append(q, S!Line)
        BY <3>3, OneByOne
      <4> QED
        BY <3>1, <4>1, <4>2
    <3> QED
      BY <1>2, <3>1, <3>2, <3>3, SendRoutes
  <2> QED
    BY <1>2, <2>1, <2>2, <2>3 DEF S!HandleLine
<1>6. DOMAIN state' = Socket /\ (Joined' => b = Mine') /\ b.room = cur'.room
  BY <1>2, <1>a DEF Routes, Joined, Mine
<1>7. Leads(outbox', Place(cache'), b)
  BY <1>4, <1>5
<1> QED
  BY <1>5, <1>6, <1>7, RoutesPrimed

\* Steps that leave the game side, the sidecar's cache and its outbox alone.
LEMMA RoutesAside ==
  ASSUME Routes, UNCHANGED <<outbox, cache, cur, rev>>, DOMAIN state' = Socket,
         \A s \in MySocket : Route(s)'
  PROVE  Routes'
<1>1. PICK b : Leads(outbox, Place(cache), b) /\ b.room = cur.room /\ (Joined => b = Mine)
  BY DEF Routes, Wished
<1>2. Leads(outbox', Place(cache'), b)
  BY <1>1
<1>3. b.room = cur'.room /\ (Joined' => b = Mine')
  BY <1>1 DEF Joined, Mine
<1> QED
  BY <1>2, <1>3, RoutesPrimed

LEMMA QuietRoutes ==
  ASSUME Routes, UNCHANGED <<outbox, cache, cur, rev, up, state, ctx>>,
         \/ link' = link
         \/ link'.state \notin {"open", "connecting"}
  PROVE  Routes'
<1>1. \A s \in MySocket : Route(s)'
  BY RouteStays DEF Routes
<1> QED
  BY <1>1, RoutesAside DEF Routes

LEMMA OpenRoutes ==
  ASSUME ChainInv, Routes, OpenStep
  PROVE  Routes'
<1>1. /\ link.state = "connecting" /\ link' = [link EXCEPT !.state = "open"]
      /\ IF cache.room = NoRoom THEN up' = up ELSE S!Send(<<S!JoinMessage(cache)>>)
      /\ UNCHANGED <<outbox, cache, cur, rev, state, ctx>>
  BY DEF OpenStep, S!OnOpen, chatSide, relaySide
<1>2. LinkTyped
  BY DEF ChainInv, Typed
<1>3. link'.sock = link.sock /\ link'.state = "open"
  BY <1>1, <1>2 DEF LinkTyped
<1>4. ASSUME NEW s \in MySocket PROVE Route(s)'
  <2>1. CASE link.sock # s
    <3>1. up'[s] = up[s]
      BY <1>1, <1>2, <2>1 DEF S!Send, LinkTyped
    <3> QED
      BY <1>1, <1>3, <2>1, <3>1, RouteStays DEF Routes
  <2>2. CASE link.sock = s /\ state[s] = "open"
    <3>1. up[s] = <<>> /\ ctx[s].room = NoRoom /\ IsQueue(up[s])
      BY <1>1, <2>2, QueueEmpty DEF Routes, Route
    <3>2. CASE cache.room = NoRoom
      <4>1. Leads(up'[s], Place(ctx'[s]), Place(cache'))
        BY <1>1, <3>1, <3>2, LeadsNowhere DEF Place
      <4> QED
        BY <1>3, <4>1, RoutePrimed
    <3>3. CASE cache.room # NoRoom
      <4>1. up'[s] = up[s] \o <<S!JoinMessage(cache)>>
        BY <1>1, <1>2, <2>2, <3>3 DEF S!Send, LinkTyped
      <4>2. up'[s] = Append(up[s], S!JoinMessage(cache))
        BY <3>1, <4>1, OneByOne
      <4>3. After(S!JoinMessage(cache), S!Empty) = Place(cache) /\ S!JoinMessage(cache).type # "chat"
        BY <3>3 DEF After, S!JoinMessage, Place
      <4>4. Leads(Append(up[s], S!JoinMessage(cache)), S!Empty, Place(cache))
        BY <3>1, <4>3, LeadsNowhere, LeadsOn
      <4>5. Place(ctx'[s]) = S!Empty
        BY <1>1, <3>1 DEF Place
      <4>6. Leads(up'[s], Place(ctx'[s]), Place(cache'))
        BY <1>1, <4>2, <4>4, <4>5
      <4> QED
        BY <1>3, <4>6, RoutePrimed
    <3> QED
      BY <3>2, <3>3
  <2>3. CASE state[s] # "open"
    BY <1>1, <2>3, RoutePrimed
  <2> QED
    BY <2>1, <2>2, <2>3
<1> QED
  BY <1>1, <1>4, RoutesAside DEF Routes

LEMMA DialRoutes ==
  ASSUME ChainInv, Routes, DialStep
  PROVE  Routes'
<1>1. PICK s \in MySocket : up[s] = <<>> /\ S!Dial(s) /\ R!Connect(s) /\ UNCHANGED chatSide
  BY DEF DialStep
<1>2. /\ link' = [sock |-> s, state |-> "connecting"] /\ UNCHANGED <<cache, outbox, up, cur, rev>>
      /\ ctx' = [ctx EXCEPT ![s] = R!NoContext]
      /\ state' = [state EXCEPT ![s] = "refused"] \/ state' = [state EXCEPT ![s] = "open"]
  BY <1>1 DEF S!Dial, R!Connect, R!Open, chatSide
<1>3. DOMAIN ctx = Socket /\ DOMAIN state = Socket /\ MySocket \subseteq Socket
  BY DEF ChainInv, Typed, RelayTyped, Routes, Socket
<1>4. ASSUME NEW r \in MySocket PROVE Route(r)'
  <2>1. CASE r # s
    <3>1. state'[r] = state[r] /\ ctx'[r] = ctx[r]
      BY <1>2, <1>3, <2>1
    <3> QED
      BY <1>2, <2>1, <3>1, RouteStays DEF Routes
  <2>2. CASE r = s
    <3>1. up'[r] = <<>> /\ ctx'[r].room = NoRoom /\ link'.state = "connecting"
      BY <1>1, <1>2, <1>3, <2>2 DEF R!NoContext
    <3>2. Leads(up'[r], Place(ctx'[r]), Place(ctx'[r]))
      BY <3>1, LeadsNowhere
    <3> QED
      BY <3>1, <3>2, RoutePrimed
  <2> QED
    BY <2>1, <2>2
<1> QED
  BY <1>2, <1>3, <1>4, RoutesAside

\* The relay reads a message: it is where the message led to.
LEMMA RelayRoutes ==
  ASSUME ChainInv, Routes, NEW s \in MySocket, RelayStep(s)
  PROVE  Routes'
<1>. DEFINE m == Head(up[s])
<1>1. /\ up[s] # <<>> /\ Handle(s, m) /\ up' = [up EXCEPT ![s] = Tail(@)]
      /\ UNCHANGED <<cur, rev, outbox, cache, link>>
  BY DEF RelayStep, chatSide
<1>2. LinkTyped /\ RelayTyped /\ s \in Socket
  BY DEF ChainInv, Typed, Socket
<1>3. m \in Elements(up[s]) /\ IsQueue(up[s])
  BY <1>1, <1>2, QueueTail DEF LinkTyped
<1>4. Message(m)
  BY <1>2, <1>3 DEF LinkTyped
<1>5. \A r \in MySocket : r # s => ctx'[r] = ctx[r]
  <2>1. CASE R!Join(s, m.context) \/ R!Leave(s)
    <3>1. ctx' = R!CtxLeft(s) \/ \E room : ctx' = R!JoinedCtx(s, room, m.context)
      BY <2>1 DEF R!Join, R!Leave
    <3> QED
      BY <1>2, <3>1 DEF R!JoinedCtx, R!CtxLeft, RelayTyped, Socket
  <2>2. CASE ctx' = ctx
    BY <2>2
  <2> QED
    BY <1>1, <2>1, <2>2 DEF Handle, R!ChatAll, R!ChatTeam, relaySide
<1>6. Place(ctx'[s]) = After(m, Place(ctx[s]))
  <2>1. CASE m.type = "join"
    <3>1. m.context \in Asked /\ m.context.room \notin {NoRoom, Malformed}
      BY <1>4, <2>1, ChainConstants DEF ChainConstants, Message, Asked
    <3>2. R!JoinTargets(m.context) = {m.context.room}
      BY <3>1 DEF R!JoinTargets
    <3>3. R!Join(s, m.context)
      BY <1>1, <2>1 DEF Handle
    <3>4. ctx' = R!JoinedCtx(s, m.context.room, m.context)
      BY <3>2, <3>3 DEF R!Join
    <3>5. DOMAIN R!CtxLeft(s) = Socket
      BY LeftFollows, <1>2
    <3>6. ctx'[s] = [room |-> m.context.room, user |-> m.context.user, team |-> m.context.team,
                     spectator |-> m.context.spectator, reveal |-> m.context.reveal,
                     rev |-> m.context.rev]
      BY <1>2, <3>4, <3>5 DEF R!JoinedCtx
    <3>7. ctx'[s] = m.context
      BY <3>1, <3>6 DEF Asked
    <3> QED
      BY <2>1, <3>1, <3>7 DEF After, Place
  <2>2. CASE m.type = "leave"
    <3>1. ctx' = R!CtxLeft(s)
      BY <1>1, <2>2 DEF Handle, R!Leave
    <3>2. ctx'[s] = [ctx[s] EXCEPT !.room = NoRoom, !.reveal = FALSE, !.rev = 0]
      BY <1>2, <3>1 DEF R!CtxLeft, RelayTyped
    <3>3. ctx[s] \in Remembered
      BY <1>2 DEF RelayTyped
    <3>4. ctx'[s].room = NoRoom
      BY <3>2, <3>3 DEF Remembered
    <3> QED
      BY <2>2, <3>4 DEF After, Place
  <2>3. CASE m.type = "chat"
    <3>1. ctx' = ctx
      BY <1>1, <2>3 DEF Handle, R!ChatAll, R!ChatTeam, relaySide
    <3> QED
      BY <2>3, <3>1 DEF After
  <2> QED
    BY <1>4, <2>1, <2>2, <2>3 DEF Message
<1>7. state' = state
  BY <1>1 DEF Handle, R!Join, R!Leave, R!ChatAll, R!ChatTeam, relaySide
<1>8. ASSUME NEW r \in MySocket PROVE Route(r)'
  <2>1. CASE r # s
    <3>1. up'[r] = up[r]
      BY <1>1, <1>2, <2>1 DEF LinkTyped
    <3> QED
      BY <1>1, <1>5, <1>7, <2>1, <3>1, RouteStays DEF Routes
  <2>2. CASE r = s
    <3>1. up'[r] = Tail(up[s]) /\ Place(ctx'[r]) = After(m, Place(ctx[s]))
      BY <1>1, <1>2, <1>6, <2>2 DEF LinkTyped
    <3>2. \A b : Leads(up[s], Place(ctx[s]), b) => Leads(Tail(up[s]), After(m, Place(ctx[s])), b)
      BY <1>1, <1>3, LeadsTail
    <3>3. \A b : Leads(up[s], Place(ctx[s]), b) => Leads(up'[r], Place(ctx'[r]), b)
      BY <3>1, <3>2
    <3>4. Route(s)
      BY DEF Routes
    <3> QED
      BY <1>1, <1>7, <2>2, <3>3, <3>4, RoutePrimed DEF Route
  <2> QED
    BY <2>1, <2>2
<1> QED
  BY <1>1, <1>7, <1>8, RoutesAside DEF Routes

LEMMA LossRoutes ==
  ASSUME ChainInv, Routes, NEW s \in MySocket, RelayClose(s) \/ RateLimited(s)
  PROVE  Routes'
<1>1. LinkTyped /\ RelayTyped /\ DOMAIN state = Socket /\ s \in Socket /\ MySocket \subseteq Socket
  BY DEF ChainInv, Typed, Routes, Socket
<1>2. UNCHANGED <<cur, rev, outbox, cache, link>>
  BY DEF RelayClose, RateLimited, Apart, chatSide
<1>3. /\ DOMAIN state' = Socket /\ state'[s] # "open"
      /\ \A r \in MySocket : r # s => state'[r] = state[r] /\ ctx'[r] = ctx[r]
  BY <1>1 DEF RelayClose, RateLimited, R!Close, R!CloseHandler, R!BeginClose, relaySide, RelayTyped
<1>4. \A r \in MySocket : r # s => up'[r] = up[r]
  BY <1>1 DEF RelayClose, RateLimited, LinkTyped
<1>5. \A r \in MySocket : Route(r)'
  BY <1>2, <1>3, <1>4, RouteStays DEF Routes
<1> QED
  BY <1>2, <1>3, <1>5, RoutesAside

LEMMA RestartRoutes ==
  ASSUME ChainInv, Routes, RelayRestarts
  PROVE  Routes'
<1>1. UNCHANGED <<cur, rev, outbox, cache, link>> /\ state' = [s \in Socket |-> "absent"]
  BY DEF RelayRestarts, Apart, chatSide, R!Restart
<1>2. \A s \in MySocket : Route(s)'
  BY <1>1, RouteStays DEF Routes, Socket
<1> QED
  BY <1>1, <1>2, RoutesAside

LEMMA PeerRoutes ==
  ASSUME ChainInv, Routes, PeerStep
  PROVE  Routes'
<1>1. UNCHANGED <<cur, rev, outbox, cache, link, up>>
  BY DEF PeerStep, Apart, chatSide
<1>2. PICK p \in Peer :
        \/ R!Connect(p) \/ R!Leave(p) \/ R!Close(p)
        \/ \E m \in PeerJoin : R!Join(p, m)
        \/ PeerTalks /\ R!ChatAll(p)
  BY DEF PeerStep
<1>3. p \in Socket /\ p \notin MySocket /\ MySocket \subseteq Socket
  BY ChainConstants DEF ChainConstants, Socket
<1>4. DOMAIN ctx = Socket /\ DOMAIN state = Socket
  BY DEF ChainInv, Typed, RelayTyped, Routes
<1>5. DOMAIN state' = Socket /\ \A r \in MySocket : state'[r] = state[r]
  BY <1>2, <1>3, <1>4 DEF R!Connect, R!Leave, R!Close, R!CloseHandler, R!Join, R!ChatAll
<1>6. \A r \in MySocket : ctx'[r] = ctx[r]
  <2>1. \/ ctx' = ctx \/ ctx' = [ctx EXCEPT ![p] = R!NoContext] \/ ctx' = R!CtxLeft(p)
        \/ \E room, m : ctx' = R!JoinedCtx(p, room, m)
    BY <1>2 DEF R!Connect, R!Leave, R!Close, R!CloseHandler, R!Join, R!ChatAll
  <2> QED
    BY <1>3, <1>4, <2>1 DEF R!JoinedCtx, R!CtxLeft
<1>7. \A s \in MySocket : Route(s)'
  BY <1>1, <1>5, <1>6, RouteStays DEF Routes
<1> QED
  BY <1>1, <1>5, <1>7, RoutesAside

LEMMA RoutesInitially == Init => Routes
<1>. SUFFICES ASSUME Init PROVE Routes
  OBVIOUS
<1>1. /\ outbox = <<>> /\ Place(cache) = S!Empty /\ link = S!Waiting
      /\ S!Empty.room = cur.room /\ ~Joined
      /\ state = [s \in Socket |-> IF s \in Peer THEN "open" ELSE "absent"]
  BY DEF Init, C!Init, S!Init, PeersIn, S!Empty, C!Nowhere, Place, Joined
<1>2. \A s \in MySocket : state[s] # "open"
  BY <1>1, ChainConstants DEF ChainConstants, Socket
<1> QED
  BY <1>1, <1>2, LeadsNowhere DEF Routes, Route, Wished

LEMMA RoutesInductive == ChainInv /\ Routes /\ [Next]_vars => Routes'
<1>. SUFFICES ASSUME ChainInv, Routes, [Next]_vars PROVE Routes'
  OBVIOUS
<1>1. CASE EngineStep \/ LuaStep
  BY <1>1, GameRoutes
<1>2. CASE LineStep
  BY <1>2, LineRoutes
<1>3. CASE OpenStep
  BY <1>3, OpenRoutes
<1>4. CASE DialStep
  BY <1>4, DialRoutes
<1>5. CASE Drain \/ MessageStep \/ UNCHANGED vars
  <2>1. UNCHANGED <<outbox, cache, cur, rev, up, state, ctx, link>>
    BY <1>5 DEF Drain, MessageStep, S!OnMessage, vars, chatSide, relaySide
  <2> QED
    BY <2>1, QuietRoutes
<1>6. CASE ClosingStep \/ HangUpStep \/ BreakStep
  <2>1. UNCHANGED <<outbox, cache, cur, rev, up, state, ctx>>
    BY <1>6 DEF ClosingStep, HangUpStep, BreakStep, S!OnClosing, S!OnClose, chatSide, relaySide
  <2>2. link'.state \in {"closing", "waiting"}
    BY <1>6 DEF ClosingStep, HangUpStep, BreakStep, S!OnClosing, S!OnClose, S!Waiting,
                ChainInv, Typed, LinkTyped
  <2> QED
    BY <2>1, <2>2, QuietRoutes
<1>7. CASE \E s \in MySocket : RelayStep(s) \/ RelayClose(s) \/ RateLimited(s)
  BY <1>7, RelayRoutes, LossRoutes
<1>8. CASE RelayRestarts
  BY <1>8, RestartRoutes
<1>9. CASE PeerStep
  BY <1>9, PeerRoutes
<1> QED
  BY <1>1, <1>2, <1>3, <1>4, <1>5, <1>6, <1>7, <1>8, <1>9 DEF Next

LEMMA TalkFollowsRoute == ChainInv /\ Routes => TalkStaysInItsRoom
<1>. SUFFICES ASSUME ChainInv, Routes, NEW s \in MySocket, up[s] # <<>>,
                     Head(up[s]).type = "chat", state[s] = "open"
              PROVE  ctx[s].room = Head(up[s]).tag
  BY DEF TalkStaysInItsRoom
<1>1. IsQueue(up[s])
  BY DEF ChainInv, Typed, LinkTyped
<1>2. PICK b : Leads(up[s], Place(ctx[s]), b)
  BY DEF Routes, Route
<1> QED
  BY <1>1, <1>2, LeadsTail, PlaceRoom

\* A line meets the relay in the room it was typed in, through every switch of
\* room, reconnect and restart (sidecar/index.js joinRoom, leaveCurrentRoom and
\* the forwarding of other lines; the relay's join and leave).
THEOREM ChainTalk == Spec => []TalkStaysInItsRoom
<1>1. Spec => []ChainInv
  BY ChainInitially, ChainInductive, PTL DEF Spec
<1>2. Spec => []Routes
  BY <1>1, RoutesInitially, RoutesInductive, PTL DEF Spec
<1> QED
  BY <1>1, <1>2, TalkFollowsRoute, PTL
=============================================================================
