SPECIFICATION FairSpec
CONSTANTS
  small = small
  large = large
  c1 = c1
  c2 = c2
  None = None
  Requests <- MCRequests
  Calls = {c1, c2}
  Delta <- MCDelta
  OpeningCash = 1
  MaxFailures = 1
  MaxCrashes = 1
  MaxCloses = 1
INVARIANTS
  AcceptedNotLost
  EffectsBacked
  ChargesExplained
  BalanceIsSumOfCredits
PROPERTIES
  AcceptedSettles
CHECK_DEADLOCK FALSE
