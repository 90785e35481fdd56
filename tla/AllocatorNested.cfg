SPECIFICATION Spec
CONSTANTS
  None = None
  cached = cached
  uncached = uncached
  Policies <- All
  Page = 4
  Offers <- NestedOffers
  Marks = {}
  Groups <- MCGroups
  Windows = {}
CHECK_DEADLOCK FALSE
INVARIANTS FreeApart
