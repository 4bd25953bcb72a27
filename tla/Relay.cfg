SPECIFICATION Spec
CONSTANTS
  s1 = s1  s2 = s2  s3 = s3
  ip = ip  r1 = r1  r2 = r2  ann = ann
  NoRoom = NoRoom  Malformed = Malformed  NoTeam = NoTeam  NoUser = NoUser
  Socket = {s1, s2, s3}
  Ip = {ip}
  IpOf <- MCIpOf
  Room = {r1, r2}
  User = {ann}
  JoinMsg <- MCJoinMsg
  MaxConnsPerIp = 2
  MaxDown = 3
SYMMETRY MCSymmetry
INVARIANTS TypeOK MembershipAgrees ConnectionsCounted LastSnapshotCurrent TeamTalkConfined
PROPERTY IsRoomService
