SPECIFICATION Spec
CONSTANTS
  low = low
  high = high
  zone = zone
  other = other
  Virtual = {low, high}
  Direct = direct
  Zones = {zone, other}
  Under <- MCUnder
  Window = 8
  Claims <- MCClaims
  MaxClaims = 2
  Page = 4
  Policies = {}
  Memory <- MCMemory
  Directs <- MCDirects
  Segments <- MCSegments
  Sizes <- MCSizes
  Within = TRUE
SYMMETRY ZonesAlike
CHECK_DEADLOCK FALSE
INVARIANTS PoolsApart SegmentsApart TrackerKnows WindowsKept
