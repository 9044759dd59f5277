SPECIFICATION FairSpec
CONSTANTS
  checking = checking
  omnibus = omnibus
  Accounts <- MCAccounts
  Custody = omnibus
  Amounts = {0, 2}
  SeedCurrent <- MCSeedCurrent
  SeedAvailable <- MCSeedAvailable
  PostDelay = 1
  SettleDelay = 1
  MaxTransfers = 2
  MaxSimulations = 2
  MaxResets = 1
INVARIANTS
  MoneyAccounted
  AvailableNeverNegative
  SettledAtMostOnce
PROPERTIES
  ClearsAsPromised
  ForwardOnly
  AcceptedClears
