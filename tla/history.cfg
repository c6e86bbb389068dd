SPECIFICATION Spec
CONSTANTS
  Orders = {o1, o2}
  Base = 2
  Places = 2
  MaxSeconds = 2
  MaxEntries = 3
INVARIANTS TypeOK EntriesReadBack LatestSecondFirst
CHECK_DEADLOCK FALSE
