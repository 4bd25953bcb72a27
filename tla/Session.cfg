SPECIFICATION FairSpec
CONSTANTS
  MaxSession = 2
  MaxLines = 2
  MaxTold = 2
  Timeout = 2
  Grace = 3
  Missing = Missing
  MaxTrouble = 1
INVARIANTS IpcTypeOK OwnLinesOnly HeardInOrder LingersBriefly KeepsCompany
PROPERTIES OutboxIsQueue EndsWithGame KeepsReading
CHECK_DEADLOCK FALSE
