SPECIFICATION JournalSpec
CONSTANTS
  Blocks = {1, 2}
  LogLen = 8
  MaxTrans = 4
  MaxCrash = 2
  MaxData = 1
  Explored = {}
INVARIANTS AllOrNothing Readable Unwritten RoomFound
CHECK_DEADLOCK FALSE
