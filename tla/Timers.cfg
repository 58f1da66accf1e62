CONSTANTS
  Sleeps = {s1, s2}
  Delays = {0, 1, 2}
  MaxTime = 2
  Interval = 1
  MinLen = 2
SPECIFICATION FairSpec
INVARIANTS EntryOwnsFuture
PROPERTIES SettlesWhileServed
CHECK_DEADLOCK FALSE
