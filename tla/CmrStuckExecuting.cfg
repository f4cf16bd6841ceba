\* The marker against the watcher.
SPECIFICATION FairSpec
CONSTANTS
  i1 = i1
  Intents = {i1}
  Sessions = {s1}
  Ticks = {t1}
  Target <- AllOnOne
  NoTx = NoTx
  Expiry <- MCExpiry
  ExpiresAt = 2
  MaxTime = 3
  Ttl = 1
  LockSecs = 2
  Skew = 0
  SendBuffer = 0
  Grace = 1
  Cooldown = 1
  Debounce = 1
  Stale = 1
  StaleSweep = FALSE
  Faults = FALSE
  MaxCrashes = 0
PROPERTIES ExecutingResolves
CHECK_DEADLOCK FALSE
