SPECIFICATION JournalSpec
CONSTANTS
  Blocks = {1, 2}
  LogLen = 8
  MaxTrans = 3
  MaxCrash = 1
  MaxData = 1
  Explored = {"revoke"}
INVARIANTS AllOrNothing
CHECK_DEADLOCK FALSE
