SPECIFICATION FairInvestingSpec
CONSTANTS
  Slots = {s1, s2}
  garfield = garfield
  milo = milo
  Felines <- MCFelines
  cust1 = cust1
  cust10 = cust10
  Customers <- MCCustomers
  Portfolios = {port}
  NoPortfolio = none
  Readers = {r1}
  Extends <- MCExtends
  TTLPortfolioValuation = 1
  MaxChanges = 2
  Cats = {garfield}
  Viewers = {v1, v2}
  ListTTL = 1
  PageTTL = 2
  MaxSlow = 1
  MaxEvents = 2
INVARIANTS
  HoldRespected
  OrdersReal
  ErrorsExplained
  
PROPERTIES
  HoldTakesEffect
