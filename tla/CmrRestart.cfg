\* One session, two ticks that may overlap, and restarts, no other fault; the
\* stale sweep is off.
SPECIFICATION FairSpec
CONSTANTS
  i1 = i1
  Intents = {i1}
  Sessions = {s1}
  Ticks = {t1, t2}
  Target <- AllOnOne
  NoTx = NoTx
  Expiry <- MCExpiry
  ExpiresAt = 2
  MaxTime = 1
  Ttl = 0
  LockSecs = 2
  Skew = 0
  SendBuffer = 0
  Grace = 1
  Cooldown = 1
  Debounce = 1
  Stale = 1
  StaleSweep = FALSE
  Faults = FALSE
  MaxCrashes = 2
PROPERTIES MarkedInTimeResolves CooldownRespected
CHECK_DEADLOCK FALSE
