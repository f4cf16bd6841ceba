\* Three asks, one bid; a plan quoted, moved, approved, executed and settled.
SPECIFICATION Spec
CONSTANTS
  c1 = c1
  c2 = c2
  Checks = {c1, c2}
  Offers <- MCOffers
  Later <- MCLater
  Contested <- MCContested
  Sizes = {1, 2}
  Caps = {0, 9, 10}
  Deployments <- MCDeployments
  MinSize = 1
  MinNotional = 10
  MaxEdits = 1
  MaxQuotes = 2
  MaxRuns = 2
  MaxOthers = 1
SYMMETRY MCSymmetry
INVARIANTS TypeOK SweepIsBest PlanFollowsInputs AppliedOnce
PROPERTIES PaidOnce
CHECK_DEADLOCK FALSE
