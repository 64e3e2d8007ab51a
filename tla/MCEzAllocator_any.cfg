\* The process ends where memory does.
CHECK_DEADLOCK FALSE
SPECIFICATION Spec
CONSTANTS
  t1 = t1
  t2 = t2
  b1 = b1
  b2 = b2
  Threads = {t1, t2}
  Addresses = {b1, b2}
  Requests = {1, 15}
  Header = 2
  WordSize = 16
  MaxCalls = 2
  NoOne = NoOne
  None = None
INVARIANT LockedIsExact
PROPERTIES OnlyLostUpdatesDrift AllJoined
