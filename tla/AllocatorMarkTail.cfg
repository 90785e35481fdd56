SPECIFICATION Spec
CONSTANTS
  None = None
  cached = cached
  uncached = uncached
  Policies <- All
  Page = 4
  Offers <- MCOffers
  Marks <- TailMarks
  Groups <- MCGroups
  Windows = {}
CHECK_DEADLOCK FALSE
INVARIANTS TakenNotFree
