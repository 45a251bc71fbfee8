CONSTANTS
  Families <- MCFamilies
  Seconds <- MCSeconds
  LimitPath = 16
  LimitLocalPart = 3
  LimitDomain = 9
SPECIFICATION Spec
INVARIANT AddressReturns
CHECK_DEADLOCK FALSE
