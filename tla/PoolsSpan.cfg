SPECIFICATION Spec
CONSTANTS
  low = low
  high = high
  zone = zone
  other = other
  Virtual = {low, high}
  Direct = direct
  Zones = {}
  Under <- NoUnder
  Window = 8
  Claims <- MCClaims
  MaxClaims = 2
  Page = 4
  Policies = {}
  Memory <- MCMemory
  Directs <- SpanDirects
  Segments <- MCSegments
  Sizes <- MCSizes
  Within = FALSE
CHECK_DEADLOCK FALSE
INVARIANTS PoolsApart
