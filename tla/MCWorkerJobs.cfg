SPECIFICATION FairJobsSpec
CONSTANTS
  Incidents = {i1, i2}
  Clients = {tab}
  Buffer = 1
  None = None
  MaxFailures = 1
  MaxCrashes = 1
  Deposits = {d1}
  Runners = {ticker, cronjob}
  Frequencies <- MCFrequencies
  MaxTime = 3
  MaxMissed = 1
  MaxCutOff = 1
  Months = {1, 2}
  MaxFigures = 1
  MaxFaults = 1
  MaxMade = 2
INVARIANTS
  AckedIsDelivered
  RepeatsExplained
  StreamAccounted
  JobsAccounted
PROPERTIES
  PublishedIsAlerted
  DueIsClaimed
CHECK_DEADLOCK FALSE
