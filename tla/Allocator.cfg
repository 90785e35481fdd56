SPECIFICATION Spec
CONSTANTS
  None = None
  cached = cached
  uncached = uncached
  Policies <- All
  Page = 4
  Offers <- MCOffers
  Marks <- MCMarks
  Groups <- MCGroups
  Windows <- MCWindows
CHECK_DEADLOCK FALSE
INVARIANTS FreeApart TakenApart NothingLost Together
PROPERTIES LowestFit AllocReturns
