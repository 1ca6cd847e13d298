SPECIFICATION DeskSpec
CONSTANTS
  Requests = {r1, r2}
  None = None
  MaxEntries = 1
INVARIANT BlockNeverWavedThrough
CHECK_DEADLOCK FALSE
