\* One browser, two markets; connections lost and found, pages left early.
SPECIFICATION FairSpec
CONSTANTS
  c1 = c1
  s1 = s1
  s2 = s2
  l1 = l1
  None = None
  Clients = {c1}
  Symbols = {s1, s2}
  Loops = {l1}
  MaxOpens = 2
  MaxConnects = 2
  MaxReloads = 1
INVARIANTS TypeOK CountCovers
PROPERTIES FeedSettles
CHECK_DEADLOCK FALSE
