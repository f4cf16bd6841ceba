\* The wallet lock against the monitor's tick.
SPECIFICATION Spec
CONSTANTS
  i1 = i1
  Intents = {i1}
  Sessions = {s1}
  Ticks = {t1}
  Target <- AllOnOne
  NoTx = NoTx
  Expiry <- MCExpiry
  ExpiresAt = 3
  MaxTime = 4
  Ttl = 1
  LockSecs = 2
  Skew = 0
  SendBuffer = 0
  Grace = 1
  Cooldown = 1
  Debounce = 1
  Stale = 1
  StaleSweep = FALSE
  Faults = FALSE
  MaxCrashes = 0
PROPERTIES LockBlocksRearm
CHECK_DEADLOCK FALSE
