SPECIFICATION MCSpec
CONSTANTS
  None = None
  Users = {customer}
  Tokens = {t1, t2, t3}
  SessionTTL = 2
  IndexTTL = 3
  pod1 = pod1
  pod2 = pod2
  garfield = garfield
  ana = ana
  cat = cat
  Pods = {pod1, pod2}
  Skew <- MCSkew
  MaxSkew = 1
  Limit = 2
  Window = 3
  MaxAdmitted = 5
  People = {ana1, ana2}
  Cats = {garfield}
  Name <- MCName
  Calls = {hook, clerk}
  MaxFaults = 1
  Tabs = {ana1, ana2}
  MaxTokens = 3
  MaxRequests = 2
  MaxMishaps <- MCMishaps
INVARIANTS
  SessionsIndexed
  
  WindowHeld
  
  PortalAccessExplained
SYMMETRY StoreSymmetry
CHECK_DEADLOCK FALSE
