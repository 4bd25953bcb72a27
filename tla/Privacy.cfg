SPECIFICATION Spec
CONSTANTS
  me = me  anon = anon  bob = bob  m1 = m1  m2 = m2  p1 = p1
  NoSeed = NoSeed  NoRoom = NoRoom  NoTeam = NoTeam  NoUser = NoUser
  NoSocket = NoSocket  Malformed = Malformed
  Seed = {1, 2}
  Friendly = me  Fallback = anon  PeerName = bob
  Audience = {}
  Named = {TRUE}
  Role <- AnyRole
  PeerJoin <- EitherSide
  PeerTalks = FALSE
  MySocket = {m1, m2}
  Peer = {p1}
  MaxRetries = 1
  MaxRev = 12
  MaxLines = 2
  MaxGame = 3
  MaxUp = 2  MaxInbox = 1  MaxDown = 2
  MaxTrouble = 2
SYMMETRY MCSymmetry
INVARIANTS PregamePrivacy TagsIdentifyContext CaughtUp
CHECK_DEADLOCK FALSE
