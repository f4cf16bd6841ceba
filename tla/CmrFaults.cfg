\* One session; lost posts, RPC and reconciler errors, a restart, the stale sweep.
SPECIFICATION FairSpec
CONSTANTS
  i1 = i1
  Intents = {i1}
  Sessions = {s1}
  Ticks = {t1}
  Target <- AllOnOne
  NoTx = NoTx
  Expiry <- MCExpiry
  ExpiresAt = 4
  MaxTime = 5
  Ttl = 1
  LockSecs = 2
  Skew = 0
  SendBuffer = 0
  Grace = 1
  Cooldown = 1
  Debounce = 1
  Stale = 1
  StaleSweep = TRUE
  Faults = TRUE
  MaxCrashes = 1
INVARIANTS ExecutedHasTrade
PROPERTIES OpenIntentCloses
CHECK_DEADLOCK FALSE
