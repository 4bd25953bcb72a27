SPECIFICATION FairSpec
CONSTANTS
  me = me  anon = anon  bob = bob  m1 = m1  m2 = m2  p1 = p1
  NoSeed = NoSeed  NoRoom = NoRoom  NoTeam = NoTeam  NoUser = NoUser
  NoSocket = NoSocket  Malformed = Malformed
  Seed = {1, 2}
  Friendly = me  Fallback = anon  PeerName = bob
  Audience <- ToAll
  Named = {FALSE}
  Role <- OneSide
  PeerJoin <- EitherSide
  PeerTalks = FALSE
  MySocket = {m1, m2}
  Peer = {p1}
  MaxRetries = 1
  MaxRev = 12
  MaxLines = 2
  MaxGame = 3
  MaxUp = 2  MaxInbox = 1  MaxDown = 2
  MaxTrouble = 1
INVARIANTS TalkStaysInItsRoom RestsSettled
PROPERTY EventuallySettled
CHECK_DEADLOCK FALSE
