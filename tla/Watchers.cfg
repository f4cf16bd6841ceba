\* Two overlapping ticks, batches of two blocks, two faults, one restart.
SPECIFICATION Spec
CONSTANTS
  f1 = f1
  f2 = f2
  r1 = r1
  p1 = p1
  p2 = p2
  c1 = c1
  o1 = o1
  o2 = o2
  Chain <- MCChain
  Kind <- MCKind
  Salt <- MCSalt
  Cancels <- MCCancels
  Orders = {o1, o2}
  Slots = {1, 2}
  MaxBatch = 2
  SeenCap = 2
  MaxFaults = 2
  MaxRestarts = 1
INVARIANTS TypeOK NothingSkipped CountedOnce FloorHolds
CHECK_DEADLOCK FALSE
PROPERTY CatchesUp
