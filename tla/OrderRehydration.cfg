\* One placement, a partial fill and a restart: what does the book hold?
SPECIFICATION Spec
CONSTANTS
  o1 = o1
  f1 = f1
  f2 = f2
  Orders = {o1}
  Size <- MCSize
  Placements = {p1}
  Places <- AllPlace
  Cancels = {}
  Withdraws <- AllWithdraw
  Fills = {f1}
  Takes <- AllTake
  FillSize <- MCFillSize
  Handler <- MCHandler
  NoLevel = NoLevel
  MaxCrashes = 1
SYMMETRY Symmetry
INVARIANTS OpenIsInBook
CHECK_DEADLOCK FALSE
