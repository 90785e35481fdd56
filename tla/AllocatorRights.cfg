SPECIFICATION Spec
CONSTANTS
  None = None
  cached = cached
  uncached = uncached
  Policies <- All
  Page = 4
  Offers <- MixedOffers
  Marks = {}
  Groups <- MixedGroups
  Windows = {}
CHECK_DEADLOCK FALSE
INVARIANTS RightsKept
