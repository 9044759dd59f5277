SPECIFICATION Spec
CONSTANTS
  Deposits = {d1}
  ticker = ticker
  cronjob = cronjob
  Runners <- MCRunners
  Frequencies <- MCFrequencies
  MaxTime = 1
  MaxFailures = 1
  MaxCrashes = 1
INVARIANTS
  FrequenciesAccepted
CHECK_DEADLOCK FALSE
