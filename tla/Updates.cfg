CONSTANTS
  c1 = c1
  c2 = c2
  Client = {c1, c2}
  Release <- MCRelease
  NoRelease = 0
  Installed = 1
  MaxReleases = 2
  MaxTrouble = 2
SPECIFICATION FairSpec
INVARIANTS UpdateTypeOK RevalidatesTheSame ClientInStep
PROPERTIES EventuallyTold
