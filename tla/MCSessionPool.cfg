CONSTANTS
  Items = {i1, i2}
  Clients = {c1, c2, c3}
  NoItem = NoItem
  Shelf = Shelf
  Gone = Gone
SPECIFICATION FairSpec
INVARIANTS
  ExclusiveOwnership
  ReturnNeverBlocks
PROPERTIES
  GuardsLoseNothing
  ClosedIsFinal
  TimedCheckoutAnswered
  ImplementsLender
  LoansEnd
CHECK_DEADLOCK FALSE
