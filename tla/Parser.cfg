CONSTANTS
  Families <- MCFamilies
  Seconds <- MCSeconds
  LimitPath = 16
  LimitLocalPart = 3
  LimitDomain = 9
SPECIFICATION Spec
INVARIANTS LinesParsed AddressRoundTrips ParsedAfresh
CHECK_DEADLOCK FALSE
