SPECIFICATION Spec
CONSTANTS
  None = None
  Version = {v1, v2}
  Linked = {v1, v2}
  MaxTasks = 2
  MaxTrouble = 1
INVARIANTS NoticeTypeOK AnnouncedOnce ClickOpensItsText CoveredTakesNoClick
           NotStuck
PROPERTIES CueIsTimely NothingForgotten
SYMMETRY MCSymmetry
CHECK_DEADLOCK FALSE
