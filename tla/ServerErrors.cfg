SPECIFICATION Spec
CONSTANTS
  i1 = i1  i2 = i2  t1 = t1  t2 = t2  t3 = t3  p1 = p1  p2 = p2  c1 = c1  c2 = c2
  NoToken = NoToken  Free = Free  NoPid = NoPid  NoFlow = NoFlow
  Install = {i1, i2}
  Token = {t1, t2}
  TokenFile <- MCTokenFile
  Account <- MCAccount
  Pid = {p1, p2}
  Slot = {c1, c2}
  MaxTrouble = 1
INVARIANT ServerErrorsRetried
CHECK_DEADLOCK FALSE
