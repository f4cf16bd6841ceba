\* Two intents, one tick at a time or two, one request to POST /orders.
SPECIFICATION Spec
CONSTANTS
  i1 = i1
  i2 = i2
  t1 = t1
  t2 = t2
  d1 = d1
  Unit = 10
  Intents = {i1, i2}
  Ticks = {t1, t2}
  Desks = {d1}
  Forms <- MCForms
  Bodies <- MCBodies
  DeskOrders <- MCDeskOrders
  Rested <- MCRested
  Rules <- MCRules
  Balance = 20
  Grace = 1
  Limit = 1
  MaxRequests = 2
  MaxFaults = 1
INVARIANTS TypeOK PlacedAsDeclared ExactFormsPass DriftOnly OneLivePerOrder 
PROPERTIES PlacedAlone ActiveSettles
CHECK_DEADLOCK FALSE
