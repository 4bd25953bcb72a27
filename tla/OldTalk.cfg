SPECIFICATION Spec
CONSTANTS
  me = me  anon = anon  bob = bob  m1 = m1  m2 = m2  p1 = p1
  NoSeed = NoSeed  NoRoom = NoRoom  NoTeam = NoTeam  NoUser = NoUser
  NoSocket = NoSocket  Malformed = Malformed
  Seed = {1, 2}
  Friendly = me  Fallback = anon  PeerName = bob
  Audience = {}
  Named = {TRUE}
  Role <- BothTeams
  PeerJoin <- Teammate
  PeerTalks = TRUE
  MySocket = {m1, m2}
  Peer = {p1}
  MaxRetries = 1
  MaxRev = 12
  MaxLines = 1
  MaxGame = 3
  MaxUp = 2  MaxInbox = 1  MaxDown = 3
  MaxTrouble = 2
INVARIANT NoOldMatchTalk
CHECK_DEADLOCK FALSE
