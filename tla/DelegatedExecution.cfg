\* One intent, two user operations, a manual execution and a restart.
SPECIFICATION Spec
CONSTANTS
  Intents = {i1}
  Ops = {u1, u2}
  Nobody = Nobody
  Limit = 1
  MaxCrashes = 1
INVARIANTS TypeOK ExecutedIsFull AppliedIsExecuted UnfinishedKeepsMarker TwiceOnlyByHand NoOrphanClaim
PROPERTIES RefinesLifecycle RevokedStops
SYMMETRY OpSymmetry
CHECK_DEADLOCK FALSE
