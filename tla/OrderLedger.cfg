\* Two placements of one order, a cancel, two fills by two handlers, a restart.
SPECIFICATION Spec
CONSTANTS
  o1 = o1
  f1 = f1
  f2 = f2
  Orders = {o1}
  Size <- MCSize
  Placements = {p1, p2}
  Places <- AllPlace
  Cancels = {c1}
  Withdraws <- AllWithdraw
  Fills = {f1, f2}
  Takes <- AllTake
  FillSize <- MCFillSize
  Handler <- MCHandler
  NoLevel = NoLevel
  MaxCrashes = 1
SYMMETRY Symmetry
INVARIANTS TypeOK FillsAccounted PlacedIsInBook
CHECK_DEADLOCK FALSE
