SPECIFICATION Spec
CONSTANTS
  None = None
  cached = cached
  uncached = uncached
  Policies <- All
  Page = 4
  Offers <- MCOffers
  Marks <- TopMarks
  Groups <- TopGroups
  Windows = {}
CHECK_DEADLOCK FALSE
INVARIANTS HeapNearKernel
